---- MODULE Spec2Model ----
(***************************************************************************)
(* StellarRoute backend: the risk model (services/risk_service.py), the    *)
(* grid pathfinder and route metrics (services/routing_service.py), the    *)
(* heatmap (services/heatmap_service.py), the storm and GPS drift          *)
(* simulation (services/simulation.py), the space-weather provider         *)
(* (services/noaa_service.py), the cache (cache/memory_cache.py) and the   *)
(* request handlers of main.py.                                            *)
(*                                                                         *)
(* Numbers.  The Python code computes in binary floating point; the model  *)
(* computes the same expressions exactly, in scaled integers:              *)
(*   kp_index          tenths            (kp 4.5 is 45)                    *)
(*   latitude, longitude  whole degrees                                    *)
(*   multipliers       tenths            (1.5 is 15)                       *)
(*   GPS jitter        thousandths       (0.8 is 800, below 1.2 is 1199)   *)
(*   local variation   hundredths        (0.8 is 80, below 1.2 is 119)     *)
(*   grid risk score   a numerator over ScoreDen                           *)
(*   GPS errors        tenths of a metre (the code rounds to one decimal)  *)
(*   normalized risk   tenths            (risk 1.0 is 10)                  *)
(*   lambda_param      tenths            (0.1 is 1)                        *)
(*   path costs        tenths                                              *)
(*   time              seconds                                             *)
(***************************************************************************)
EXTENDS Integers, Sequences, FiniteSets

VARIABLES
  last_call,     \* the latest call made to RiskAssessmentService, with its result
  prev_call,     \* the call made before it
  start,         \* a_star_search: start cell <<x, y>>
  goal,          \* a_star_search: goal cell <<x, y>>
  risk_grid,     \* a_star_search: risk_grid[y][x], normalized risk in tenths
  lambda_param,  \* a_star_search: risk weight in tenths
  open_set,      \* a_star_search: heap entries <<f, node>>, in insertion order
  came_from,     \* a_star_search: dict node -> predecessor
  g_score,       \* a_star_search: dict node -> cost so far
  pc,            \* a_star_search: "idle", "search" or "done"
  expanded,      \* a_star_search: cells popped so far, in pop order
  result,        \* a_star_search: Some(the returned path), or None
  current_simulation,  \* main.py: the dict current_simulation
  cache,         \* memory_cache.py: cache._cache, key -> entry
  OTP_STORE,     \* main.py: the dict OTP_STORE, email -> entry
  now,           \* the clock (time.time(), datetime.utcnow()), in seconds
  response,      \* main.py: what the latest request was answered with
  weather_call,  \* main.py: the get_current_space_weather call in flight
  otp_issued     \* history: email -> the code issued last, when, and its uses

riskVars == <<last_call, prev_call>>
astarVars == <<start, goal, risk_grid, lambda_param, open_set, came_from,
               g_score, pc, expanded, result>>
appVars == <<current_simulation, cache, OTP_STORE, now, response, weather_call,
             otp_issued>>
vars == <<riskVars, astarVars, appVars>>

\* Python's None; an optional value v that is present is Some(v)
None == <<>>
Some(v) == <<v>>

Abs(n) == IF n < 0 THEN -n ELSE n
Min(a, b) == IF a <= b THEN a ELSE b
Max(a, b) == IF a >= b THEN a ELSE b

(***************************************************************************)
(* models.py: RiskLevel, ordered Low < Medium < High.                      *)
(***************************************************************************)
LOW == "low"
MEDIUM == "medium"
HIGH == "high"
RiskLevel == {LOW, MEDIUM, HIGH}

LevelRank(level) == CASE level = LOW -> 1 [] level = MEDIUM -> 2 [] level = HIGH -> 3

(***************************************************************************)
(* RiskAssessmentService.calculate_risk_level.  kp in tenths; the solar    *)
(* wind speed and the latitude are optional.  Python's                     *)
(* `if solar_wind_speed and ...` is false for None and for 0.              *)
(***************************************************************************)
calculate_risk_level_wrong_boundary(kp_index, solar_wind_speed, latitude) ==
  LET base0 == IF kp_index <= 40 THEN LOW
               ELSE IF kp_index < 70 THEN MEDIUM
               ELSE HIGH
      base1 == IF solar_wind_speed # None /\ solar_wind_speed[1] # 0
                  /\ solar_wind_speed[1] > 600
               THEN (IF base0 = LOW THEN MEDIUM
                     ELSE IF base0 = MEDIUM THEN HIGH
                     ELSE base0)
               ELSE base0
  IN IF latitude # None /\ Abs(latitude[1]) > 60 /\ base1 # HIGH
     THEN (IF base1 = LOW THEN MEDIUM ELSE HIGH)
     ELSE base1

calculate_risk_level_drops_high(kp_index, solar_wind_speed, latitude) ==
  LET base0 == IF kp_index < 40 THEN LOW
               ELSE IF kp_index < 70 THEN MEDIUM
               ELSE HIGH
      base1 == IF solar_wind_speed # None /\ solar_wind_speed[1] # 0
                  /\ solar_wind_speed[1] > 600
               THEN (IF base0 = LOW THEN MEDIUM
                     ELSE IF base0 = MEDIUM THEN HIGH
                     ELSE base0)
               ELSE base0
  IN IF latitude # None /\ Abs(latitude[1]) > 60
     THEN (IF base1 = LOW THEN MEDIUM
           ELSE IF base1 = MEDIUM THEN HIGH
           ELSE MEDIUM)
     ELSE base1

calculate_risk_level(kp_index, solar_wind_speed, latitude) ==
  LET base0 == IF kp_index < 40 THEN LOW
               ELSE IF kp_index < 70 THEN MEDIUM
               ELSE HIGH
      base1 == IF solar_wind_speed # None /\ solar_wind_speed[1] # 0
                  /\ solar_wind_speed[1] > 600
               THEN (IF base0 = LOW THEN MEDIUM
                     ELSE IF base0 = MEDIUM THEN HIGH
                     ELSE base0)
               ELSE base0
  IN IF latitude # None /\ Abs(latitude[1]) > 60 /\ base1 # HIGH
     THEN (IF base1 = LOW THEN MEDIUM ELSE HIGH)
     ELSE base1

(***************************************************************************)
(* RiskAssessmentService.estimate_gps_error.                               *)
(***************************************************************************)
\* self.base_gps_errors, in metres
base_gps_errors(level) ==
  CASE level = LOW -> <<5, 15>>
    [] level = MEDIUM -> <<30, 100>>
    [] level = HIGH -> <<100, 500>>

\* the scenario multiplier dict with .get(scenario, 1.0), in tenths
gps_scenario_multiplier(scenario) ==
  CASE scenario = "normal" -> 10
    [] scenario = "moderate" -> 15
    [] scenario = "severe" -> 25
    [] OTHER -> 10

\* the latitude adjustment, in tenths
gps_latitude_multiplier(latitude) ==
  IF latitude = None THEN 10
  ELSE IF Abs(latitude[1]) > 60 THEN 18
  ELSE IF Abs(latitude[1]) > 45 THEN 13
  ELSE 10

\* round(num / den) to the nearest integer, ties to even, for num >= 0, den > 0
RoundHalfEven(num, den) ==
  LET q == num \div den
      r == num % den
  IN IF 2 * r < den THEN q
     ELSE IF 2 * r > den THEN q + 1
     ELSE IF q % 2 = 0 THEN q ELSE q + 1

\* round(x, 1) of x = metres * scenario/10 * latitude/10 * random/1000,
\* as tenths of a metre
Round1(metres, sm, lm, rf) == RoundHalfEven(metres * sm * lm * rf, 10000)

estimate_gps_error_swapped(risk_level, latitude, scenario, random_factor) ==
  LET sm == gps_scenario_multiplier(scenario)
      lm == gps_latitude_multiplier(latitude)
      base == base_gps_errors(risk_level)
  IN <<Round1(base[2], sm, lm, random_factor),
       Round1(base[1], sm, lm, random_factor)>>

\* random_factor stands for 0.8 + random.random() * 0.4, in thousandths
estimate_gps_error(risk_level, latitude, scenario, random_factor) ==
  LET sm == gps_scenario_multiplier(scenario)
      lm == gps_latitude_multiplier(latitude)
      base == base_gps_errors(risk_level)
  IN <<Round1(base[1], sm, lm, random_factor),
       Round1(base[2], sm, lm, random_factor)>>

(***************************************************************************)
(* RiskAssessmentService.calculate_grid_risk_score.                        *)
(***************************************************************************)
_calculate_geomagnetic_factor(latitude) ==
  IF Abs(latitude) > 70 THEN 20
  ELSE IF Abs(latitude) > 50 THEN 15
  ELSE IF Abs(latitude) > 30 THEN 12
  ELSE 10

\* self.risk_regions, in dict (insertion) order; multipliers in tenths
risk_regions ==
  << [name |-> "north_america", lat_range |-> <<20, 70>>,
      lon_range |-> <<-130, -60>>, multiplier |-> 10],
     [name |-> "europe", lat_range |-> <<35, 70>>,
      lon_range |-> <<-10, 40>>, multiplier |-> 12],
     [name |-> "asia", lat_range |-> <<10, 60>>,
      lon_range |-> <<60, 150>>, multiplier |-> 11],
     [name |-> "south_pole", lat_range |-> <<-90, -60>>,
      lon_range |-> <<-180, 180>>, multiplier |-> 20],
     [name |-> "north_pole", lat_range |-> <<60, 90>>,
      lon_range |-> <<-180, 180>>, multiplier |-> 18] >>

InRegion(config, latitude, longitude) ==
  /\ config.lat_range[1] <= latitude /\ latitude <= config.lat_range[2]
  /\ config.lon_range[1] <= longitude /\ longitude <= config.lon_range[2]

\* the multiplier of the last matching region instead of the first
_get_region_factor_last_match(latitude, longitude) ==
  LET hits == {i \in 1..Len(risk_regions) :
                 InRegion(risk_regions[i], latitude, longitude)}
  IN IF hits = {} THEN 10
     ELSE risk_regions[CHOOSE i \in hits : \A j \in hits : i >= j].multiplier

_get_region_factor(latitude, longitude) ==
  LET hits == {i \in 1..Len(risk_regions) :
                 InRegion(risk_regions[i], latitude, longitude)}
  IN IF hits = {} THEN 10
     ELSE risk_regions[CHOOSE i \in hits : \A j \in hits : i <= j].multiplier

\* the scenario factor dict with .get(scenario, 1.0), in tenths
grid_scenario_factor(scenario) ==
  CASE scenario = "normal" -> 10
    [] scenario = "moderate" -> 15
    [] scenario = "severe" -> 20
    [] OTHER -> 10

\* Scores are numerators over ScoreDen:
\*   (kp/10 / 9) * 70 * g/10 * r/10 * s/10 * v/100
\*     = kp * 7 * g * r * s * v / (9 * 1000 * 100)
\* (the largest numerator, 90*7*20*20*20*119, stays below 2^31)
ScoreDen == 9 * 1000 * 100

calculate_grid_risk_score_unclamped(kp_index, latitude, longitude, scenario, local_variation) ==
  kp_index * 7 * _calculate_geomagnetic_factor(latitude)
    * _get_region_factor(latitude, longitude)
    * grid_scenario_factor(scenario) * local_variation

\* local_variation stands for 0.8 + random.random() * 0.4, in hundredths
calculate_grid_risk_score(kp_index, latitude, longitude, scenario, local_variation) ==
  LET total_score ==
        kp_index * 7 * _calculate_geomagnetic_factor(latitude)
          * _get_region_factor(latitude, longitude)
          * grid_scenario_factor(scenario) * local_variation
  IN Min(100 * ScoreDen, total_score)

(***************************************************************************)
(* Callers of the risk model.  Every function draws from the global random *)
(* source on each call, so a call's result depends on its arguments and on *)
(* the draw.  The model keeps the last two calls made to one function.     *)
(***************************************************************************)
NoCall == [fn |-> "none"]

\* kp in [0, 9], with both sides of the tier boundaries 4 and 7
KpValues == {0, 20, 39, 40, 45, 50, 69, 70, 90}
SolarWindSpeeds == {None, Some(0), Some(600), Some(601)}
LevelLatitudes == {None, Some(-61), Some(-60), Some(0), Some(60), Some(61)}
GpsLatitudes == {None, Some(-61), Some(0), Some(45), Some(46), Some(60), Some(61)}
Scenarios == {"normal", "moderate", "severe", "extreme"}
\* 0.8 + random.random() * 0.4 lies in [0.8, 1.2)
GpsRandomFactors == {800, 900, 1000, 1100, 1199}
GridKpValues == {0, 45, 50, 90}
GridLatitudes == {-90, 0, 40, 65, 90}
GridLongitudes == {-180, -100, 20}
LocalVariations == {80, 100, 119}

SameFunction(fn) == last_call = NoCall \/ last_call.fn = fn

CallRiskLevel ==
  /\ prev_call = NoCall
  /\ SameFunction("calculate_risk_level")
  /\ \E kp \in KpValues, sw \in SolarWindSpeeds, lat \in LevelLatitudes :
       last_call' = [fn |-> "calculate_risk_level", kp_index |-> kp,
                     solar_wind_speed |-> sw, latitude |-> lat,
                     value |-> calculate_risk_level(kp, sw, lat)]
  /\ prev_call' = last_call
  /\ UNCHANGED <<astarVars, appVars>>

CallEstimateGpsError ==
  /\ prev_call = NoCall
  /\ SameFunction("estimate_gps_error")
  /\ \E level \in RiskLevel, lat \in GpsLatitudes, sc \in Scenarios,
        rf \in GpsRandomFactors :
       last_call' = [fn |-> "estimate_gps_error", risk_level |-> level,
                     latitude |-> lat, scenario |-> sc, random_factor |-> rf,
                     value |-> estimate_gps_error(level, lat, sc, rf)]
  /\ prev_call' = last_call
  /\ UNCHANGED <<astarVars, appVars>>

CallGridRiskScore ==
  /\ prev_call = NoCall
  /\ SameFunction("calculate_grid_risk_score")
  /\ \E kp \in GridKpValues, lat \in GridLatitudes, lon \in GridLongitudes,
        sc \in Scenarios, lv \in LocalVariations :
       last_call' = [fn |-> "calculate_grid_risk_score", kp_index |-> kp,
                     latitude |-> lat, longitude |-> lon, scenario |-> sc,
                     local_variation |-> lv,
                     value |-> calculate_grid_risk_score(kp, lat, lon, sc, lv)]
  /\ prev_call' = last_call
  /\ UNCHANGED <<astarVars, appVars>>

(***************************************************************************)
(* AStarRouter (services/routing_service.py).                              *)
(***************************************************************************)
\* AStarRouter.__init__(grid_size): the grid is grid_size x grid_size
grid_size == 3

\* the cells of the declared grid, [0, grid_size-1] x [0, grid_size-1]
GridCells == (0..(grid_size - 1)) \X (0..(grid_size - 1))

\* self.movements, in order: right, up, left, down; move_cost 1.0 in tenths
movements == << <<1, 0, 10>>, <<0, 1, 10>>, <<-1, 0, 10>>, <<0, -1, 10>> >>

\* the bounds check of a_star_search
InBoundsCheck_off_by_one(cell) ==
  /\ -1 <= cell[1] /\ cell[1] < grid_size
  /\ -1 <= cell[2] /\ cell[2] < grid_size

InBoundsCheck(cell) ==
  /\ 0 <= cell[1] /\ cell[1] < grid_size
  /\ 0 <= cell[2] /\ cell[2] < grid_size

\* Python list indexing: a negative index counts from the end
PyIndex(i) == IF i < 0 THEN i + grid_size ELSE i

\* risk_grid[neighbor[1]][neighbor[0]]
RiskAt(grid, cell) == grid[PyIndex(cell[2])][PyIndex(cell[1])]

\* Manhattan distance, in tenths
heuristic_overestimate(a, b) == 30 * (Abs(a[1] - b[1]) + Abs(a[2] - b[2]))

heuristic(a, b) == 10 * (Abs(a[1] - b[1]) + Abs(a[2] - b[2]))

EmptyDict == [c \in {} |-> c]

\* Python's order on the heap entries (f, (x, y)): by f, then x, then y
TupleLess(a, b) ==
  \/ a[1] < b[1]
  \/ a[1] = b[1] /\ a[2][1] < b[2][1]
  \/ a[1] = b[1] /\ a[2][1] = b[2][1] /\ a[2][2] < b[2][2]

\* heapq.heappop: the position of the smallest entry.  The sequence keeps the
\* entries in the order they were pushed; the heap's own array order is not
\* modelled, since heappop's result depends only on the entries' values.
HeapMinIndex(heap) ==
  CHOOSE i \in 1..Len(heap) :
    \A j \in 1..Len(heap) : ~TupleLess(heap[j], heap[i])

RemoveAt(seq, i) == SubSeq(seq, 1, i - 1) \o SubSeq(seq, i + 1, Len(seq))

RECURSIVE reconstruct_path(_, _)
reconstruct_path(cf, current) ==
  IF current \in DOMAIN cf
  THEN Append(reconstruct_path(cf, cf[current]), current)
  ELSE <<current>>

\* `if current == goal` at the head of the loop body
GoalReached_after_move(current) == current = goal /\ current \in DOMAIN came_from

GoalReached(current) == current = goal

\* The body of `for dx, dy, move_cost in self.movements` for one movement m.
\* i, current and ms are bound by \E over a one-element set in the actions.
\* The four neighbours of a cell are four different cells and none is the
\* cell itself, so within one pass of the loop every test reads the g_score
\* the pass started with.
Neighbor(current, m) == <<current[1] + m[1], current[2] + m[2]>>

tentative_g_score(current, m) ==
  g_score[current] + m[3] + lambda_param * RiskAt(risk_grid, Neighbor(current, m))

Improves(current, m) ==
  /\ InBoundsCheck(Neighbor(current, m))
  /\ \/ Neighbor(current, m) \notin DOMAIN g_score
     \/ tentative_g_score(current, m) < g_score[Neighbor(current, m)]

\* the movements that update their neighbour, in loop order
Improving(current) == SelectSeq(movements, LAMBDA m : Improves(current, m))

\* the entries the loop pushes, in push order.  The f_score dict is written
\* and never read again: its entry is the first component of the pushed pair.
Pushes(current, ms) ==
  [i \in 1..Len(ms) |->
     <<tentative_g_score(current, ms[i]) + heuristic(Neighbor(current, ms[i]), goal),
       Neighbor(current, ms[i])>>]

\* the neighbours the loop updates
Targets(current, ms) == {Neighbor(current, ms[k]) : k \in 1..Len(ms)}

\* came_from after the loop's assignments came_from[neighbor] = current
came_from_updated(current, ms) ==
  [c \in (DOMAIN came_from) \cup Targets(current, ms) |->
     IF c \in Targets(current, ms) THEN current ELSE came_from[c]]

\* g_score after the loop's assignments g_score[neighbor] = tentative_g_score
g_score_updated(current, ms) ==
  [c \in (DOMAIN g_score) \cup Targets(current, ms) |->
     IF c \in Targets(current, ms)
     THEN tentative_g_score(current,
            ms[CHOOSE k \in 1..Len(ms) : Neighbor(current, ms[k]) = c])
     ELSE g_score[c]]

\* Inputs of a_star_search.  find_routes passes cells clamped into the grid;
\* the function itself accepts any pair of integers.  Of the cells outside
\* the grid, one touches it and one does not; that matters for a start
\* cell only, since no move of the search leaves the grid.
OutsideCells == { <<-1, 0>>, <<grid_size, grid_size>> }
StartCells == GridCells \cup OutsideCells
GoalCells == GridCells \cup { <<-1, 0>> }
\* lambda_param: 0.1 for the normal route and 1.0 for the safe route
Lambdas == {1, 10}
\* create_risk_grid yields risk_score / 100, in [0, 1].  The score depends on
\* the cell through latitude bands and lat/lon region boxes, so the grids
\* drawn have one rectangular zone of risk 1.0 (or none) in a field of 0.
Rectangles ==
  { {c \in GridCells : x1 <= c[1] /\ c[1] <= x2 /\ y1 <= c[2] /\ c[2] <= y2} :
    x1 \in 0..(grid_size - 1), x2 \in 0..(grid_size - 1),
    y1 \in 0..(grid_size - 1), y2 \in 0..(grid_size - 1) }
RiskGrids ==
  { [y \in 0..(grid_size - 1) |->
       [x \in 0..(grid_size - 1) |-> IF <<x, y>> \in S THEN 10 ELSE 0]] :
    S \in Rectangles }

AStarExpand ==
  /\ pc = "search"
  /\ open_set # <<>>
  /\ \E i \in {HeapMinIndex(open_set)} :
     \E current \in {open_set[i][2]} :
     \E ms \in {Improving(current)} :
        /\ ~GoalReached(current)
        /\ came_from' = came_from_updated(current, ms)
        /\ g_score' = g_score_updated(current, ms)
        /\ open_set' = RemoveAt(open_set, i) \o Pushes(current, ms)
        /\ expanded' = Append(expanded, current)
  /\ UNCHANGED <<start, goal, risk_grid, lambda_param, pc, result>>
  /\ UNCHANGED <<riskVars, appVars>>

AStarReturnPath ==
  /\ pc = "search"
  /\ open_set # <<>>
  /\ \E i \in {HeapMinIndex(open_set)} :
     \E current \in {open_set[i][2]} :
        /\ GoalReached(current)
        /\ open_set' = RemoveAt(open_set, i)
        /\ expanded' = Append(expanded, current)
        /\ result' = Some(reconstruct_path(came_from, current))
  /\ pc' = "done"
  /\ UNCHANGED <<start, goal, risk_grid, lambda_param, came_from, g_score>>
  /\ UNCHANGED <<riskVars, appVars>>

AStarReturnNone ==
  /\ pc = "search"
  /\ open_set = <<>>
  /\ result' = None
  /\ pc' = "done"
  /\ UNCHANGED <<start, goal, risk_grid, lambda_param, open_set, came_from,
                 g_score, expanded>>
  /\ UNCHANGED <<riskVars, appVars>>

(***************************************************************************)
(* Specifications.                                                         *)
(***************************************************************************)
RiskIdle == last_call = NoCall /\ prev_call = NoCall

AStarIdle ==
  /\ start = <<0, 0>>
  /\ goal = <<0, 0>>
  /\ risk_grid = <<>>
  /\ lambda_param = 0
  /\ open_set = <<>>
  /\ came_from = EmptyDict
  /\ g_score = EmptyDict
  /\ pc = "idle"
  /\ expanded = <<>>
  /\ result = None

\* main.py after import and startup_event: no simulation, no OTP, and the
\* cache holding the key "api_startup" for 3600 s.  A cache key is a pair
\* <<prefix, rest>>, an entry a record [value, expires_at].
NoResponse == [handler |-> "none"]
NoWeatherCall == [pc |-> "idle"]
AppIdle ==
  /\ current_simulation = [active |-> FALSE, scenario |-> None, kp_index |-> None,
                           latitude |-> None, longitude |-> None]
  /\ cache = [k \in { <<"api_startup", "">> } |->
                [value |-> "startup", expires_at |-> 3600]]
  /\ OTP_STORE = EmptyDict
  /\ now = 0
  /\ response = NoResponse
  /\ weather_call = NoWeatherCall
  /\ otp_issued = EmptyDict

\* the risk model, called twice
InitRisk == RiskIdle /\ AStarIdle /\ AppIdle
NextRisk == CallRiskLevel \/ CallEstimateGpsError \/ CallGridRiskScore
SpecRisk == InitRisk /\ [][NextRisk]_vars

\* a_star_search after its first four statements
InitAStar ==
  /\ RiskIdle
  /\ AppIdle
  /\ start \in StartCells
  /\ goal \in GoalCells
  /\ risk_grid \in RiskGrids
  /\ lambda_param \in Lambdas
  /\ open_set = << <<0, start>> >>
  /\ came_from = EmptyDict
  /\ g_score = [c \in {start} |-> 0]
  /\ pc = "search"
  /\ expanded = <<>>
  /\ result = None
NextAStar == AStarExpand \/ AStarReturnPath \/ AStarReturnNone
SpecAStar == InitAStar /\ [][NextAStar]_vars
\* the loop of a_star_search runs on until it returns
SpecAStarFair == SpecAStar /\ WF_vars(NextAStar)

(***************************************************************************)
(* Properties of the risk model (checked under SpecRisk).                  *)
(***************************************************************************)
IsCall(call, fn) == call # NoCall /\ call.fn = fn

\* C1: calculate_grid_risk_score returns a value in [0, 100] for every kp in
\* [0, 9], every latitude and longitude, every scenario string and every
\* local variation in [0.8, 1.2).
C1_GridScoreInRange ==
  IsCall(last_call, "calculate_grid_risk_score") =>
    /\ 0 <= last_call.value
    /\ last_call.value <= 100 * ScoreDen

\* a call whose unclamped product passes 100 (kp 9 at the south pole in a
\* severe scenario) and one whose score is 0
C1_Witness ==
  /\ IsCall(last_call, "calculate_grid_risk_score")
  /\ IsCall(prev_call, "calculate_grid_risk_score")
  /\ last_call.kp_index = 90 /\ last_call.latitude = -90
  /\ last_call.scenario = "severe" /\ last_call.local_variation = 119
  /\ last_call.value = 100 * ScoreDen
  /\ prev_call.kp_index = 0 /\ prev_call.value = 0

\* C2: for a fixed latitude, longitude and scenario and kp1 <= kp2, any call
\* with kp2 returns a score not strictly lower than any call with kp1.
C2_GridScoreMonotonicInKp ==
  ( /\ IsCall(prev_call, "calculate_grid_risk_score")
    /\ IsCall(last_call, "calculate_grid_risk_score")
    /\ prev_call.latitude = last_call.latitude
    /\ prev_call.longitude = last_call.longitude
    /\ prev_call.scenario = last_call.scenario
    /\ prev_call.kp_index <= last_call.kp_index )
  => prev_call.value <= last_call.value

\* C3: calculate_risk_level is monotonic non-decreasing in kp for a fixed
\* solar wind speed (or none) and a fixed latitude (or none).
C3_RiskLevelMonotonicInKp ==
  ( /\ IsCall(prev_call, "calculate_risk_level")
    /\ IsCall(last_call, "calculate_risk_level")
    /\ prev_call.solar_wind_speed = last_call.solar_wind_speed
    /\ prev_call.latitude = last_call.latitude
    /\ prev_call.kp_index <= last_call.kp_index )
  => LevelRank(prev_call.value) <= LevelRank(last_call.value)

\* two calls at a high latitude, kp 5.0 then kp 7.0, both giving High
C3_Witness ==
  /\ IsCall(prev_call, "calculate_risk_level")
  /\ IsCall(last_call, "calculate_risk_level")
  /\ prev_call.solar_wind_speed = last_call.solar_wind_speed
  /\ prev_call.latitude = Some(61) /\ last_call.latitude = Some(61)
  /\ prev_call.kp_index = 50 /\ last_call.kp_index = 70
  /\ prev_call.value = HIGH /\ last_call.value = HIGH

\* The rule as the claim words it, on ranks 1 (Low), 2 (Medium), 3 (High).
ReferenceRank(kp, wind, lat) ==
  LET tier == IF kp < 40 THEN 1 ELSE IF kp < 70 THEN 2 ELSE 3
      windy == IF wind # None /\ wind[1] > 600 THEN Min(tier + 1, 3) ELSE tier
  IN IF lat # None /\ Abs(lat[1]) > 60
     THEN (IF windy = 2 THEN 3 ELSE Max(windy, 2))
     ELSE windy

\* C4: calculate_risk_level equals the reference rule: base tier from kp,
\* raised one tier (capped at High) if the solar wind speed is above 600,
\* then raised to at least Medium, or to High if already Medium, if
\* |latitude| > 60; an absent speed or latitude changes nothing.
C4_RiskLevelMatchesRule ==
  IsCall(last_call, "calculate_risk_level") =>
    /\ last_call.value \in RiskLevel
    /\ LevelRank(last_call.value)
         = ReferenceRank(last_call.kp_index, last_call.solar_wind_speed,
                         last_call.latitude)

\* kp exactly 4.0 with both optional inputs absent gives Medium, and
\* kp 3.9 with a fast wind at a high latitude is raised twice, to High
C4_Witness ==
  /\ IsCall(prev_call, "calculate_risk_level")
  /\ IsCall(last_call, "calculate_risk_level")
  /\ prev_call.kp_index = 40 /\ prev_call.solar_wind_speed = None
  /\ prev_call.latitude = None /\ prev_call.value = MEDIUM
  /\ last_call.kp_index = 39 /\ last_call.solar_wind_speed = Some(601)
  /\ last_call.latitude = Some(-61) /\ last_call.value = HIGH

\* C5: estimate_gps_error returns (min, max) with 0 <= min <= max for every
\* risk level, latitude (or none), scenario string and jitter factor.
C5_GpsErrorOrdered ==
  IsCall(last_call, "estimate_gps_error") =>
    /\ 0 <= last_call.value[1]
    /\ last_call.value[1] <= last_call.value[2]

\* a call with an unknown scenario and no latitude, at the smallest jitter
C5_Witness ==
  /\ IsCall(last_call, "estimate_gps_error")
  /\ last_call.scenario = "extreme" /\ last_call.latitude = None
  /\ last_call.risk_level = LOW /\ last_call.random_factor = 800
  /\ last_call.value = <<40, 120>>

SeverityRank(scenario) ==
  CASE scenario = "normal" -> 1 [] scenario = "moderate" -> 2
    [] scenario = "severe" -> 3 [] OTHER -> 0

\* C6: for a fixed risk level and latitude, min and max of estimate_gps_error
\* strictly increase with scenario severity (normal < moderate < severe),
\* whatever jitter factor each call draws, after rounding to one decimal.
C6_GpsErrorStrictInSeverity ==
  ( /\ IsCall(prev_call, "estimate_gps_error")
    /\ IsCall(last_call, "estimate_gps_error")
    /\ prev_call.risk_level = last_call.risk_level
    /\ prev_call.latitude = last_call.latitude
    /\ SeverityRank(prev_call.scenario) > 0
    /\ SeverityRank(prev_call.scenario) < SeverityRank(last_call.scenario) )
  => /\ prev_call.value[1] < last_call.value[1]
     /\ prev_call.value[2] < last_call.value[2]

(***************************************************************************)
(* Properties of a_star_search (checked under SpecAStar, SpecAStarFair).   *)
(***************************************************************************)
Returned == pc = "done"
ReturnedPath == pc = "done" /\ result # None

\* consecutive cells differ by one step along one axis
IsWalk(path) ==
  \A k \in 1..(Len(path) - 1) :
    Abs(path[k + 1][1] - path[k][1]) + Abs(path[k + 1][2] - path[k][2]) = 1

\* the cost 1 + lambda * risk(cell) * 10 of entering a grid cell, in tenths
EnterCost(cell) == 10 + lambda_param * risk_grid[cell[2]][cell[1]]

RECURSIVE WalkCost(_)
WalkCost(path) ==
  IF Len(path) <= 1 THEN 0
  ELSE WalkCost(SubSeq(path, 1, Len(path) - 1)) + EnterCost(path[Len(path)])

GridNeighbours(cell) ==
  { <<cell[1] + 1, cell[2]>>, <<cell[1] - 1, cell[2]>>,
    <<cell[1], cell[2] + 1>>, <<cell[1], cell[2] - 1>> } \cap GridCells

\* above the cost of any walk that enters each cell at most once
Unreached == grid_size * grid_size * (10 + 10 * 10) + 1

\* Bellman-Ford from `from` over the grid, run to its fixpoint: the least cost
\* of a 4-connected walk inside the grid from `from` to each cell
RECURSIVE LeastCosts(_)
LeastCosts(d) ==
  LET relaxed == [c \in GridCells |->
                    LET via == {d[n] + EnterCost(c) : n \in GridNeighbours(c)}
                        best == CHOOSE v \in via \cup {d[c]} :
                                  \A w \in via \cup {d[c]} : v <= w
                    IN Min(best, Unreached)]
  IN IF relaxed = d THEN d ELSE LeastCosts(relaxed)

LeastCost(from, to) ==
  LeastCosts([c \in GridCells |-> IF c = from THEN 0 ELSE Unreached])[to]

\* C7: for in-bounds start and goal, the returned path is a 4-connected walk
\* from start to goal whose total cost, summing 1 + lambda * risk(cell) * 10
\* over every entered cell, is minimal among all such walks.
C7_PathIsLeastCostWalk ==
  (Returned /\ start \in GridCells /\ goal \in GridCells) =>
    /\ result # None
    /\ LET path == result[1]
       IN /\ path[1] = start
          /\ path[Len(path)] = goal
          /\ IsWalk(path)
          /\ \A k \in 1..Len(path) : path[k] \in GridCells
          /\ WalkCost(path) = LeastCost(start, goal)

\* the safe route goes around a risky zone: the returned walk is longer than
\* the Manhattan distance, and cheaper than the straight walk
C7_Witness ==
  /\ ReturnedPath
  /\ start = <<0, 0>> /\ goal = <<2, 0>> /\ lambda_param = 10
  /\ risk_grid[0][1] = 10 /\ risk_grid[1][1] = 10 /\ risk_grid[2][1] = 0
  /\ result[1] = << <<0, 0>>, <<0, 1>>, <<0, 2>>, <<1, 2>>, <<2, 2>>, <<2, 1>>, <<2, 0>> >>
  /\ WalkCost(result[1]) = 60

\* C8: with start equal to goal the search returns the path of exactly that
\* one cell, with accumulated cost 0, for every grid and every lambda.
C8_StartIsGoal ==
  (Returned /\ start = goal) =>
    /\ result = Some(<<start>>)
    /\ g_score[start] = 0
    /\ expanded = <<start>>

\* start = goal on a risky cell under the heavy risk weight
C8_Witness ==
  /\ Returned
  /\ start = goal /\ start = <<1, 1>>
  /\ lambda_param = 10 /\ risk_grid[1][1] = 10
  /\ result = Some(<< <<1, 1>> >>)

CanEnterGrid(cell) == GridNeighbours(cell) # {}
GoalReachable ==
  \/ goal = start
  \/ goal \in GridCells /\ (start \in GridCells \/ CanEnterGrid(start))

C11_TiesBrokenByInsertionOrder ==
  (pc = "search" /\ open_set # <<>>) =>
    \A j \in 1..Len(open_set) :
      (/\ open_set[j][1] = open_set[HeapMinIndex(open_set)][1]
       /\ open_set[j][2] # open_set[HeapMinIndex(open_set)][2])
        => HeapMinIndex(open_set) < j

(***************************************************************************)
(* AStarRouter.lat_lon_to_grid and grid_to_lat_lon.                        *)
(*                                                                         *)
(* Coordinates are integers that count steps of 1/(grid_size - 1) of a     *)
(* coordinate unit, and the corners of a bounding box are whole units, so  *)
(* that the vertex coordinates x / (grid_size - 1) * width are integers.   *)
(* The floating-point quotient that int() truncates differs from the exact *)
(* quotient by a rounding error of either sign (or none); the error        *)
(* matters to int() exactly when the exact quotient is a whole number.     *)
(***************************************************************************)
Roundings == {-1, 0, 1}

\* int(num / den) for den > 0, truncating toward zero, where the float
\* quotient lies just below (rounding < 0), at, or just above the exact one
IntOf(num, den, rounding) ==
  LET q == num \div den
  IN IF q * den = num
     THEN IF rounding < 0 /\ q > 0 THEN q - 1
          ELSE IF rounding > 0 /\ q < 0 THEN q + 1
          ELSE q
     ELSE IF num >= 0 THEN q ELSE q + 1

lat_lon_to_grid_unclamped(lat, lon, min_lat, max_lat, min_lon, max_lon, round_x, round_y) ==
  << IntOf((lon - min_lon) * (grid_size - 1), max_lon - min_lon, round_x),
     IntOf((lat - min_lat) * (grid_size - 1), max_lat - min_lat, round_y) >>

lat_lon_to_grid(lat, lon, min_lat, max_lat, min_lon, max_lon, round_x, round_y) ==
  LET x == IntOf((lon - min_lon) * (grid_size - 1), max_lon - min_lon, round_x)
      y == IntOf((lat - min_lat) * (grid_size - 1), max_lat - min_lat, round_y)
  IN << Max(0, Min(x, grid_size - 1)), Max(0, Min(y, grid_size - 1)) >>

\* returns (lat, lon)
grid_to_lat_lon(x, y, min_lat, max_lat, min_lon, max_lon) ==
  << min_lat + (y * (max_lat - min_lat)) \div (grid_size - 1),
     min_lon + (x * (max_lon - min_lon)) \div (grid_size - 1) >>

\* Bounding boxes: find_routes pads the box, so that max > min on both axes.
\* A cell is 1 or 2 units wide, grid_size - 1 or 2 * (grid_size - 1) steps
\* across the box.
CellWidths == {1, 2}
BBoxes ==
  { [min_lat |-> a, max_lat |-> a + kh * (grid_size - 1),
     min_lon |-> b, max_lon |-> b + kw * (grid_size - 1)] :
    a \in {-3, 0}, b \in {0, 5}, kh \in CellWidths, kw \in CellWidths }
\* points inside the box, on its edges, and up to 2 steps outside it
PointsAround(bbox) ==
  ((bbox.min_lat - 2)..(bbox.max_lat + 2)) \X ((bbox.min_lon - 2)..(bbox.max_lon + 2))
InsideBBox(p, bbox) ==
  /\ bbox.min_lat <= p[1] /\ p[1] <= bbox.max_lat
  /\ bbox.min_lon <= p[2] /\ p[2] <= bbox.max_lon

\* The calls find_routes makes: lat_lon_to_grid on a point, and grid_to_lat_lon
\* on a cell.  The second call of a run converts the first call's result back,
\* within the same bounding box.
ToGridCall(p, bbox, rx, ry) ==
  [fn |-> "lat_lon_to_grid", point |-> p, bbox |-> bbox,
   value |-> lat_lon_to_grid(p[1], p[2], bbox.min_lat, bbox.max_lat,
                             bbox.min_lon, bbox.max_lon, rx, ry)]
ToLatLonCall(c, bbox) ==
  [fn |-> "grid_to_lat_lon", cell |-> c, bbox |-> bbox,
   value |-> grid_to_lat_lon(c[1], c[2], bbox.min_lat, bbox.max_lat,
                             bbox.min_lon, bbox.max_lon)]

CallLatLonToGrid ==
  /\ prev_call = NoCall
  /\ \/ /\ last_call = NoCall
        /\ \E bbox \in BBoxes : \E p \in PointsAround(bbox) :
           \E rx \in Roundings, ry \in Roundings :
             last_call' = ToGridCall(p, bbox, rx, ry)
     \/ /\ last_call.fn = "grid_to_lat_lon"
        /\ \E rx \in Roundings, ry \in Roundings :
             last_call' = ToGridCall(last_call.value, last_call.bbox, rx, ry)
  /\ prev_call' = last_call
  /\ UNCHANGED <<astarVars, appVars>>

CallGridToLatLon ==
  /\ prev_call = NoCall
  /\ \/ /\ last_call = NoCall
        /\ \E bbox \in BBoxes : \E c \in GridCells :
             last_call' = ToLatLonCall(c, bbox)
     \/ /\ last_call.fn = "lat_lon_to_grid"
        /\ last_call' = ToLatLonCall(last_call.value, last_call.bbox)
  /\ prev_call' = last_call
  /\ UNCHANGED <<astarVars, appVars>>

NextCoords == CallLatLonToGrid \/ CallGridToLatLon
SpecCoords == InitRisk /\ [][NextCoords]_vars

\* the width and the height of one cell of the box, in steps
CellWidth(bbox) == (bbox.max_lon - bbox.min_lon) \div (grid_size - 1)
CellHeight(bbox) == (bbox.max_lat - bbox.min_lat) \div (grid_size - 1)

\* C12: converting a cell to a point and back lands within one cell of it;
\* converting a point inside the box to a cell and back lands within one cell
\* width of it on each axis; and lat_lon_to_grid returns indices in
\* 0..grid_size-1 for every point, inside the box or outside.
C12_CoordinateMappingRoundTrips ==
  /\ (last_call.fn = "lat_lon_to_grid") => last_call.value \in GridCells
  /\ (prev_call.fn = "lat_lon_to_grid") => prev_call.value \in GridCells
  /\ (prev_call.fn = "grid_to_lat_lon" /\ last_call.fn = "lat_lon_to_grid") =>
       /\ Abs(last_call.value[1] - prev_call.cell[1]) <= 1
       /\ Abs(last_call.value[2] - prev_call.cell[2]) <= 1
  /\ (/\ prev_call.fn = "lat_lon_to_grid" /\ last_call.fn = "grid_to_lat_lon"
      /\ InsideBBox(prev_call.point, prev_call.bbox)) =>
       /\ Abs(last_call.value[1] - prev_call.point[1]) <= CellHeight(prev_call.bbox)
       /\ Abs(last_call.value[2] - prev_call.point[2]) <= CellWidth(prev_call.bbox)

\* a vertex of the grid that converts back to the cell before it, because
\* the float quotient fell just below the whole number
C12_Witness ==
  /\ prev_call.fn = "grid_to_lat_lon" /\ last_call.fn = "lat_lon_to_grid"
  /\ last_call.point = prev_call.value
  /\ prev_call.cell = <<grid_size - 1, 1>>
  /\ last_call.value = <<grid_size - 2, 1>>

(***************************************************************************)
(* math.sin and math.cos.  Angles are in milliradians, values in           *)
(* thousandths; the sine is evaluated by its Taylor series, to about three *)
(* decimals.                                                               *)
(***************************************************************************)
PiMilli == 3142

\* math.sin on [0, pi/2], angle in milliradians, value in thousandths
SinQuarter(x) ==
  LET x2 == (x * x) \div 1000
      t3 == (x2 * x) \div 6000
      t5 == (t3 * x2) \div 20000
      t7 == (t5 * x2) \div 42000
  IN Min(1000, x - t3 + t5 - t7)

\* math.sin of an angle in milliradians, in thousandths
SinMilli(angle) ==
  LET r == angle % (2 * PiMilli)
      h == IF r >= PiMilli THEN r - PiMilli ELSE r
      q == IF 2 * h > PiMilli THEN PiMilli - h ELSE h
  IN IF r >= PiMilli THEN -SinQuarter(q) ELSE SinQuarter(q)

\* math.cos of an angle in milliradians, in thousandths
CosMilli(angle) == SinMilli(angle + PiMilli \div 2)

(***************************************************************************)
(* AStarRouter.smooth_path and calculate_path_metrics.                     *)
(*                                                                         *)
(* Here one coordinate step is 0.001 degree, 111 m of latitude, and the    *)
(* boxes lie within 0.01 degree of the equator, where the cosine of the    *)
(* mean latitude differs from 1 by less than 2e-8.  Results:               *)
(*   distance_m        tenths of a metre   (round(.., 1))                  *)
(*   estimated_time_s  tenths of a second  (round(.., 1))                  *)
(*   total_risk_score  hundredths          (round(.., 2))                  *)
(* A cell of the risk grid holds calculate_grid_risk_score(..) / 100.  In  *)
(* this part of the model it is a numerator over RiskOne, the score's      *)
(* numerator where the geomagnetic, region and scenario factors are 1.0:   *)
(*   (kp/10 / 9) * 70 * v/100 / 100 = kp * 7 * v / 90000                   *)
(***************************************************************************)
RiskOne == ScoreDen \div 10

\* no smoothing: the path is returned as the search found it
smooth_path_keeps_path(path) == path

smooth_path(path) ==
  IF Len(path) < 3 THEN path ELSE <<path[1], path[Len(path)]>>

\* x^2 <= 4 * 1110^2 * m, for x up to 10^6 and m up to 2000; both sides are
\* computed in two limbs of base 10^6, since they pass 2^31
SquareLeq(x, m) ==
  LET xh == x \div 1000
      xl == x % 1000
      lo1 == 2000 * xh * xl + xl * xl
      hi1 == xh * xh + lo1 \div 1000000
      lo2 == 928400 * m
      hi2 == 4 * m + lo2 \div 1000000
  IN \/ hi1 < hi2
     \/ hi1 = hi2 /\ lo1 % 1000000 <= lo2 % 1000000

\* the largest r in lo..hi with r = 0 or ((2r - 1) * k)^2 <= 4 * 1110^2 * m
RECURSIVE SqrtSearch(_, _, _, _)
SqrtSearch(lo, hi, m, k) ==
  IF lo = hi THEN lo
  ELSE LET mid == (lo + hi + 1) \div 2
       IN IF SquareLeq((2 * mid - 1) * k, m)
          THEN SqrtSearch(mid, hi, m, k)
          ELSE SqrtSearch(lo, mid - 1, m, k)

\* the largest r in lo..hi with r * r <= n
RECURSIVE ISqrtSearch(_, _, _)
ISqrtSearch(lo, hi, n) ==
  IF lo = hi THEN lo
  ELSE LET mid == (lo + hi + 1) \div 2
       IN IF mid * mid <= n THEN ISqrtSearch(mid, hi, n)
          ELSE ISqrtSearch(lo, mid - 1, n)

\* math.cos(math.radians((lat1 + lat2) / 2)) in thousandths, for latitudes
\* in steps of 0.001 degree (17453 nanoradians)
MeanLatitudeCosine(from, to) ==
  CosMilli((((from[1] + to[1]) \div 2) * 17453) \div 1000000)

\* math.sqrt(lat_distance**2 + lon_distance**2) / k in tenths of a metre,
\* rounded to the nearest integer, for endpoints <<lat, lon>> in steps of
\* 111 m = 1110 tenths.  Where the cosine of the mean latitude is 1 the
\* result is exact; elsewhere it carries the three decimals of the cosine.
RoundDistanceOver(from, to, k) ==
  LET a == Abs(to[1] - from[1])
      b == Abs(to[2] - from[2])
      c == MeanLatitudeCosine(from, to)
  IN IF c = 1000
     THEN SqrtSearch(0, (1110 * (a + b)) \div k + 1, a * a + b * b, k)
     ELSE RoundHalfEven(
            111 * ISqrtSearch(0, 1000 * (a + b), 1000000 * a * a + b * b * c * c),
            100 * k)

RECURSIVE SumRisk(_, _)
SumRisk(path, grid) ==
  IF path = <<>> THEN 0
  ELSE grid[path[1][2]][path[1][1]] + SumRisk(Tail(path), grid)

RECURSIVE MaxRisk(_, _)
MaxRisk(path, grid) ==
  IF path = <<>> THEN 0
  ELSE Max(grid[path[1][2]][path[1][1]], MaxRisk(Tail(path), grid))

\* if max_risk > 0.7 ... elif max_risk > 0.4 ... else
max_risk_zone(max_risk) ==
  IF 10 * max_risk > 7 * RiskOne THEN HIGH
  ELSE IF 10 * max_risk > 4 * RiskOne THEN MEDIUM
  ELSE LOW

\* round(avg_risk * 100, 2) in hundredths, for the sum of the path's risks
total_risk_score(total_risk, length) ==
  RoundHalfEven(total_risk * 10, length * (RiskOne \div 1000))

calculate_path_metrics_short_is_empty(path, grid, min_lat, max_lat, min_lon, max_lon) ==
  IF Len(path) < 1
  THEN [distance_m |-> 0, estimated_time_s |-> 0, total_risk_score |-> 0,
        max_risk_zone |-> LOW]
  ELSE LET first == grid_to_lat_lon(path[1][1], path[1][2],
                                    min_lat, max_lat, min_lon, max_lon)
           last == grid_to_lat_lon(path[Len(path)][1], path[Len(path)][2],
                                   min_lat, max_lat, min_lon, max_lon)
       IN [distance_m |-> RoundDistanceOver(first, last, 1),
           estimated_time_s |-> RoundDistanceOver(first, last, 15),
           total_risk_score |-> total_risk_score(SumRisk(path, grid), Len(path)),
           max_risk_zone |-> max_risk_zone(MaxRisk(path, grid))]

calculate_path_metrics(path, grid, min_lat, max_lat, min_lon, max_lon) ==
  IF Len(path) < 2
  THEN [distance_m |-> 0, estimated_time_s |-> 0, total_risk_score |-> 0,
        max_risk_zone |-> LOW]
  ELSE LET first == grid_to_lat_lon(path[1][1], path[1][2],
                                    min_lat, max_lat, min_lon, max_lon)
           last == grid_to_lat_lon(path[Len(path)][1], path[Len(path)][2],
                                   min_lat, max_lat, min_lon, max_lon)
       IN [distance_m |-> RoundDistanceOver(first, last, 1),
           estimated_time_s |-> RoundDistanceOver(first, last, 15),
           total_risk_score |-> total_risk_score(SumRisk(path, grid), Len(path)),
           max_risk_zone |-> max_risk_zone(MaxRisk(path, grid))]

\* Inputs.  Normalized risks 0, 0.4, 0.5, 0.7 and 1.0: on both sides of the
\* thresholds and at them; grids with one risk at cell (0, 0) and another
\* everywhere else.
MetricRisks ==
  {0, (4 * RiskOne) \div 10, RiskOne \div 2, (7 * RiskOne) \div 10, RiskOne}
MetricGrids ==
  { [y \in 0..(grid_size - 1) |->
       [x \in 0..(grid_size - 1) |-> IF x = 0 /\ y = 0 THEN w ELSE v]] :
    v \in MetricRisks, w \in MetricRisks }
\* the empty path, one cell, every pair of cells (what smooth_path returns),
\* and the walks of three cells
MetricPaths ==
  {<<>>} \cup { <<c>> : c \in GridCells }
    \cup { <<c, d>> : c \in GridCells, d \in GridCells }
    \cup { w \in { <<c, d, e>> : c \in GridCells, d \in GridCells, e \in GridCells } :
             w[2] \in GridNeighbours(w[1]) /\ w[3] \in GridNeighbours(w[2]) }

CallPathMetrics ==
  /\ last_call = NoCall
  /\ \E path \in MetricPaths, grid \in MetricGrids, bbox \in BBoxes :
       last_call' = [fn |-> "calculate_path_metrics", path |-> path,
                     grid |-> grid, bbox |-> bbox,
                     value |-> calculate_path_metrics(path, grid,
                                 bbox.min_lat, bbox.max_lat,
                                 bbox.min_lon, bbox.max_lon)]
  /\ prev_call' = last_call
  /\ UNCHANGED <<astarVars, appVars>>

NextMetrics == CallPathMetrics
SpecMetrics == InitRisk /\ [][NextMetrics]_vars

IsMetricsCall == last_call.fn = "calculate_path_metrics"

\* C14: max_risk_zone follows the maximum normalized risk m over the path's
\* cells: Low when m < 0.4, Medium when 0.4 <= m < 0.7, High when m >= 0.7,
\* the boundary values 0.4 and 0.7 included.
C14_MaxRiskZoneThresholds ==
  (IsMetricsCall /\ Len(last_call.path) >= 2) =>
    LET m == MaxRisk(last_call.path, last_call.grid)
    IN last_call.value.max_risk_zone =
         (IF 10 * m < 4 * RiskOne THEN LOW
          ELSE IF 10 * m < 7 * RiskOne THEN MEDIUM
          ELSE HIGH)

\* C15 as stated: a path of fewer than 2 cells has distance 0, time 0, risk
\* score 0 and zone Low; on a longer path the returned estimated_time_s
\* equals the returned distance_m / 15 and the risk score is in [0, 100].
C15_MetricsTimeIsDistanceOver15 ==
  IsMetricsCall =>
    IF Len(last_call.path) < 2
    THEN last_call.value = [distance_m |-> 0, estimated_time_s |-> 0,
                            total_risk_score |-> 0, max_risk_zone |-> LOW]
    ELSE /\ 15 * last_call.value.estimated_time_s = last_call.value.distance_m
         /\ last_call.value.total_risk_score \in 0..10000

\* C15 (amended): on a longer path estimated_time_s is the distance over 15
\* rounded to one decimal, so that it differs from the returned
\* distance_m / 15 by less than 0.06.
C15_MetricsDegenerateAndRounded ==
  IsMetricsCall =>
    IF Len(last_call.path) < 2
    THEN last_call.value = [distance_m |-> 0, estimated_time_s |-> 0,
                            total_risk_score |-> 0, max_risk_zone |-> LOW]
    ELSE /\ Abs(15 * last_call.value.estimated_time_s
                  - last_call.value.distance_m) <= 8
         /\ last_call.value.total_risk_score \in 0..10000

\* a single cell of risk 1.0, whose metrics are all zero and Low
C15_Witness ==
  /\ IsMetricsCall
  /\ last_call.path = << <<0, 0>> >>
  /\ last_call.grid[0][0] = RiskOne
  /\ last_call.value.total_risk_score = 0
  /\ last_call.value.max_risk_zone = LOW

(***************************************************************************)
(* AStarRouter.find_routes.  Points are <<lat, lon>> in steps of 0.001     *)
(* degree, near latitude 0 and longitude 0.  The two results of            *)
(* a_star_search are arguments of the model of find_routes: each is None   *)
(* (the search popped every entry without reaching the goal) or a walk     *)
(* from start_grid to end_grid.                                            *)
(***************************************************************************)
\* padding = 0.01 around the two points, then the minimum size of 0.005
RouteBBox(from, to) ==
  LET lat0 == Min(from[1], to[1]) - 10
      lat1 == Max(from[1], to[1]) + 10
      lon0 == Min(from[2], to[2]) - 10
      lon1 == Max(from[2], to[2]) + 10
      center_lat == (from[1] + to[1]) \div 2
      center_lon == (from[2] + to[2]) \div 2
  IN [min_lat |-> IF lat1 - lat0 < 5 THEN center_lat - 5 ELSE lat0,
      max_lat |-> IF lat1 - lat0 < 5 THEN center_lat + 5 ELSE lat1,
      min_lon |-> IF lon1 - lon0 < 5 THEN center_lon - 5 ELSE lon0,
      max_lon |-> IF lon1 - lon0 < 5 THEN center_lon + 5 ELSE lon1]

\* steps of 0.001 degree as whole degrees, for the factor tables of the risk
\* model, whose thresholds are whole degrees
WholeDegrees(steps) ==
  IF steps >= 0 THEN steps \div 1000 ELSE -((-steps) \div 1000)

\* a grid computed for Kp 2.0 whatever kp_index is
create_risk_grid_ignores_kp(kp_index, bbox, variation) ==
  [y \in 0..(grid_size - 1) |->
     [x \in 0..(grid_size - 1) |->
        LET point == grid_to_lat_lon(x, y, bbox.min_lat, bbox.max_lat,
                                     bbox.min_lon, bbox.max_lon)
        IN calculate_grid_risk_score(20, WholeDegrees(point[1]),
                                     WholeDegrees(point[2]), "normal",
                                     variation[<<x, y>>]) \div 1000]]

\* create_risk_grid: risk_score / 100 of every cell, a numerator over RiskOne.
\* variation[c] is the local variation drawn for cell c.
create_risk_grid(kp_index, bbox, variation) ==
  [y \in 0..(grid_size - 1) |->
     [x \in 0..(grid_size - 1) |->
        LET point == grid_to_lat_lon(x, y, bbox.min_lat, bbox.max_lat,
                                     bbox.min_lon, bbox.max_lon)
        IN calculate_grid_risk_score(kp_index, WholeDegrees(point[1]),
                                     WholeDegrees(point[2]), "normal",
                                     variation[<<x, y>>]) \div 1000]]

\* routes[..] = {"path": coords, **metrics} for a path the search found
RouteOfPath(path, grid, bbox) ==
  LET smooth == smooth_path(path)
      metrics == calculate_path_metrics(smooth, grid, bbox.min_lat, bbox.max_lat,
                                        bbox.min_lon, bbox.max_lon)
  IN [path |-> [i \in 1..Len(smooth) |->
                  grid_to_lat_lon(smooth[i][1], smooth[i][2], bbox.min_lat,
                                  bbox.max_lat, bbox.min_lon, bbox.max_lon)],
      distance_m |-> metrics.distance_m,
      estimated_time_s |-> metrics.estimated_time_s,
      total_risk_score |-> metrics.total_risk_score,
      max_risk_zone |-> metrics.max_risk_zone]

\* the route of the except branch: 1000 m, 67 s, risk score 30, Low
ExceptRoute(from, to) ==
  [path |-> <<from, to>>, distance_m |-> 10000, estimated_time_s |-> 670,
   total_risk_score |-> 3000, max_risk_zone |-> LOW]

\* "if normal_path:" is false for None and for an empty list
Truthy(path) == path # None /\ path[1] # <<>>

\* The dict find_routes returns; a key that is absent is None.  When neither
\* search found a path, the branch "if not routes" reads normal_coords, which
\* was never assigned; the NameError is caught by "except Exception", which
\* returns the two fixed routes.
find_routes(from, to, kp_index, variation, normal_path, safe_path) ==
  LET bbox == RouteBBox(from, to)
      grid == create_risk_grid(kp_index, bbox, variation)
  IN IF ~Truthy(normal_path) /\ ~Truthy(safe_path)
     THEN [normal |-> Some(ExceptRoute(from, to)),
           safe |-> Some(ExceptRoute(from, to))]
     ELSE [normal |-> IF Truthy(normal_path)
                      THEN Some(RouteOfPath(normal_path[1], grid, bbox))
                      ELSE None,
           safe |-> IF Truthy(safe_path)
                    THEN Some(RouteOfPath(safe_path[1], grid, bbox))
                    ELSE None]

\* Inputs.  The padded box of a request is |delta| + 20 steps across; the
\* requests drawn are those whose box divides into grid_size - 1 whole steps.
RouteStarts == { <<0, 0>>, <<-3, 5>> }
RouteDeltas == { d \in -4..8 : (Abs(d) + 20) % (grid_size - 1) = 0 }
RouteKps == {20, 85, 90}
\* one draw for cell (0, 0) and another for the other cells
RouteVariations ==
  { [c \in GridCells |-> IF c = <<0, 0>> THEN v ELSE w] :
    v \in LocalVariations, w \in LocalVariations }

\* a walk from cell a to cell b: along x, then along y
RECURSIVE WalkBetween(_, _)
WalkBetween(a, b) ==
  IF a = b THEN <<a>>
  ELSE IF a[1] # b[1]
       THEN <<a>> \o WalkBetween(<<a[1] + (IF a[1] < b[1] THEN 1 ELSE -1), a[2]>>, b)
       ELSE <<a>> \o WalkBetween(<<a[1], a[2] + (IF a[2] < b[2] THEN 1 ELSE -1)>>, b)

\* lat_lon_to_grid(point) within the padded box, for every rounding of the
\* float quotients
GridCellsOf(point, bbox) ==
  { lat_lon_to_grid(point[1], point[2], bbox.min_lat, bbox.max_lat,
                    bbox.min_lon, bbox.max_lon, rx, ry) :
    rx \in Roundings, ry \in Roundings }

\* what a_star_search(start_grid, end_grid, ..) can return
SearchResults(start_grid, end_grid) ==
  {None, Some(WalkBetween(start_grid, end_grid))}

CallFindRoutes ==
  /\ last_call = NoCall
  /\ \E from \in RouteStarts, dlat \in RouteDeltas, dlon \in RouteDeltas,
        kp \in RouteKps, variation \in RouteVariations :
     \E to \in {<<from[1] + dlat, from[2] + dlon>>} :
     \E start_grid \in GridCellsOf(from, RouteBBox(from, to)),
        end_grid \in GridCellsOf(to, RouteBBox(from, to)) :
     \E normal_path \in SearchResults(start_grid, end_grid),
        safe_path \in SearchResults(start_grid, end_grid) :
       last_call' = [fn |-> "find_routes", start |-> from, end |-> to,
                     kp_index |-> kp, variation |-> variation,
                     normal_path |-> normal_path, safe_path |-> safe_path,
                     value |-> find_routes(from, to, kp, variation,
                                           normal_path, safe_path)]
  /\ prev_call' = last_call
  /\ UNCHANGED <<astarVars, appVars>>

NextRoutes == CallFindRoutes
SpecRoutes == InitRisk /\ [][NextRoutes]_vars

ArangeLen(first, stop, step, rounding) ==
  LET q == (stop - first) \div step
  IN IF stop <= first THEN 0
     ELSE IF q * step = stop - first
          THEN (IF rounding > 0 THEN q + 1 ELSE q)
          ELSE q + 1

\* np.arange(first, stop, step)[i], i from 0
ArangeAt(first, step, i) == first + i * step

\* the number of passes of "for i in range(len(lats) - 1)"
LoopCount_every_point(length) == Max(0, length)
LoopCount(length) == Max(0, length - 1)

\* two-hundredths of a degree as whole degrees
CentreDegrees(centre2) ==
  IF centre2 >= 0 THEN centre2 \div 200 ELSE -((-centre2) \div 200)

GREEN == "#4CAF50"
AMBER == "#FFC107"
RED == "#F44336"

\* One feature.  draws.local_variation is the draw of calculate_grid_risk_score,
\* draws.gps_min and draws.gps_max are the draws of the two estimate_gps_error
\* calls.
HeatmapFeature_swapped(lats0, lons0, resolution, i, j, kp_index, draws) ==
  LET centre_lat2 == ArangeAt(lats0, resolution, i) + ArangeAt(lats0, resolution, i + 1)
      centre_lon2 == ArangeAt(lons0, resolution, j) + ArangeAt(lons0, resolution, j + 1)
      score == calculate_grid_risk_score(kp_index, CentreDegrees(centre_lat2),
                 CentreDegrees(centre_lon2), "normal", draws.local_variation)
      level == IF score < 40 * ScoreDen THEN LOW
               ELSE IF score < 70 * ScoreDen THEN MEDIUM ELSE HIGH
  IN [cell_min_lat |-> ArangeAt(lats0, resolution, i),
      cell_max_lat |-> ArangeAt(lats0, resolution, i + 1),
      cell_min_lon |-> ArangeAt(lons0, resolution, j),
      cell_max_lon |-> ArangeAt(lons0, resolution, j + 1),
      risk_level |-> level,
      risk_score |-> RoundHalfEven(score, ScoreDen \div 10),
      color |-> IF score < 40 * ScoreDen THEN GREEN
                ELSE IF score < 70 * ScoreDen THEN AMBER ELSE RED,
      opacity |-> Min(105 * ScoreDen, score),
      center |-> <<centre_lon2, centre_lat2>>,
      gps_error_min |-> estimate_gps_error(level, Some(CentreDegrees(centre_lat2)),
                                           "normal", draws.gps_min)[2],
      gps_error_max |-> estimate_gps_error(level, Some(CentreDegrees(centre_lat2)),
                                           "normal", draws.gps_max)[1]]

HeatmapFeature(lats0, lons0, resolution, i, j, kp_index, draws) ==
  LET centre_lat2 == ArangeAt(lats0, resolution, i) + ArangeAt(lats0, resolution, i + 1)
      centre_lon2 == ArangeAt(lons0, resolution, j) + ArangeAt(lons0, resolution, j + 1)
      score == calculate_grid_risk_score(kp_index, CentreDegrees(centre_lat2),
                 CentreDegrees(centre_lon2), "normal", draws.local_variation)
      level == IF score < 40 * ScoreDen THEN LOW
               ELSE IF score < 70 * ScoreDen THEN MEDIUM ELSE HIGH
  IN [cell_min_lat |-> ArangeAt(lats0, resolution, i),
      cell_max_lat |-> ArangeAt(lats0, resolution, i + 1),
      cell_min_lon |-> ArangeAt(lons0, resolution, j),
      cell_max_lon |-> ArangeAt(lons0, resolution, j + 1),
      risk_level |-> level,
      risk_score |-> RoundHalfEven(score, ScoreDen \div 10),
      color |-> IF score < 40 * ScoreDen THEN GREEN
                ELSE IF score < 70 * ScoreDen THEN AMBER ELSE RED,
      opacity |-> Min(105 * ScoreDen, score),
      center |-> <<centre_lon2, centre_lat2>>,
      gps_error_min |-> estimate_gps_error(level, Some(CentreDegrees(centre_lat2)),
                                           "normal", draws.gps_min)[1],
      gps_error_max |-> estimate_gps_error(level, Some(CentreDegrees(centre_lat2)),
                                           "normal", draws.gps_max)[2]]

\* bbox = <<min_lon, min_lat, max_lon, max_lat>>.  lat_len and lon_len are
\* len(lats) and len(lons).  raised: lats[i + 1] or lons[j + 1] is read past
\* the end of the array (IndexError).  grid_size "RxC" is kept as rows R and
\* cols C.
HeatmapOf(bbox, resolution, kp_index, draws, lat_len, lon_len) ==
  LET rows == LoopCount(lat_len)
      cols == LoopCount(lon_len)
      raised == rows > 0 /\ cols > 0 /\ (rows > lat_len - 1 \/ cols > lon_len - 1)
  IN [raised |-> raised,
      features |-> IF raised THEN <<>>
                   ELSE [k \in 1..(rows * cols) |->
                           HeatmapFeature(bbox[2], bbox[1], resolution,
                                          (k - 1) \div cols, (k - 1) % cols,
                                          kp_index, draws)],
      metadata |-> [bbox |-> bbox, resolution |-> resolution,
                    rows |-> lat_len - 1, cols |-> lon_len - 1,
                    kp_index |-> kp_index]]

generate_heatmap(bbox, resolution, kp_index, draws, round_lat, round_lon) ==
  HeatmapOf(bbox, resolution, kp_index, draws,
            ArangeLen(bbox[2], bbox[4], resolution, round_lat),
            ArangeLen(bbox[1], bbox[3], resolution, round_lon))

\* Inputs: a box at the equator, the box of San Francisco, a box in northern
\* Europe, and boxes of no extent, of no height, with min above max, and
\* smaller than the resolution.
HeatmapBBoxes ==
  { <<0, 0, 5, 5>>, <<-12245, 3770, -12240, 3775>>, <<2010, 6510, 2014, 6516>>,
    <<3, 3, 3, 3>>, <<0, 2, 5, 2>>, <<5, 5, 0, 0>>, <<0, 0, 1, 1>> }
HeatmapResolutions == {2, 3, 5}
HeatmapKps == {0, 53, 90}
HeatmapDraws ==
  [local_variation : {80, 97, 100, 119}, gps_min : {800, 1000, 1199},
   gps_max : {800, 1000, 1199}]

CallGenerateHeatmap ==
  /\ last_call = NoCall
  /\ \E bbox \in HeatmapBBoxes, resolution \in HeatmapResolutions,
        kp \in HeatmapKps, draws \in HeatmapDraws,
        round_lat \in Roundings, round_lon \in Roundings :
       last_call' = [fn |-> "generate_heatmap", bbox |-> bbox,
                     resolution |-> resolution, kp_index |-> kp, draws |-> draws,
                     value |-> generate_heatmap(bbox, resolution, kp, draws,
                                                round_lat, round_lon)]
  /\ prev_call' = last_call
  /\ UNCHANGED <<astarVars, appVars>>

NextHeatmap == CallGenerateHeatmap
SpecHeatmap == InitRisk /\ [][NextHeatmap]_vars

IsHeatmapCall == last_call.fn = "generate_heatmap"
Features == last_call.value.features
FeatureSet == { Features[k] : k \in 1..Len(Features) }

\* C16: in every cell the reported risk_level and color agree with the
\* reported risk_score: score < 40 iff Low and green, 40 <= score < 70 iff
\* Medium and amber, score >= 70 iff High and red.
C16_LevelConsistentWithReportedScore ==
  IsHeatmapCall =>
    \A f \in FeatureSet :
      /\ (f.risk_score < 400) <=> (f.risk_level = LOW /\ f.color = GREEN)
      /\ (400 <= f.risk_score /\ f.risk_score < 700)
           <=> (f.risk_level = MEDIUM /\ f.color = AMBER)
      /\ (f.risk_score >= 700) <=> (f.risk_level = HIGH /\ f.color = RED)

\* the bbox is smaller than the resolution on an axis: no extent, min equal
\* to max, or min above max
DegenerateBBox ==
  \/ last_call.bbox[4] - last_call.bbox[2] < last_call.resolution
  \/ last_call.bbox[3] - last_call.bbox[1] < last_call.resolution

\* C17: for a bbox of zero or near-zero extent generate_heatmap returns,
\* without raising, a result with an empty cell collection.
C17_DegenerateBBoxGivesEmptyResult ==
  (IsHeatmapCall /\ DegenerateBBox) =>
    /\ ~last_call.value.raised
    /\ Features = <<>>

\* a box with min above max, answered by an empty collection
C17_Witness ==
  /\ IsHeatmapCall
  /\ last_call.bbox = <<5, 5, 0, 0>>
  /\ ~last_call.value.raised
  /\ Features = <<>>

\* floor(extent / resolution), 0 for an extent below zero
WholeCells(extent, resolution) == IF extent < 0 THEN 0 ELSE extent \div resolution

\* C18: along each axis there are at least floor(extent / resolution) cells,
\* every cell lies inside the bbox, and the metadata's rows x cols multiply
\* to the number of cells returned.
C18_TessellatesTheBBox ==
  IsHeatmapCall =>
    LET bbox == last_call.bbox
        rows == Cardinality({ f.cell_min_lat : f \in FeatureSet })
        cols == Cardinality({ f.cell_min_lon : f \in FeatureSet })
    IN /\ rows >= WholeCells(bbox[4] - bbox[2], last_call.resolution)
       /\ cols >= WholeCells(bbox[3] - bbox[1], last_call.resolution)
       /\ \A f \in FeatureSet :
            /\ bbox[2] <= f.cell_min_lat /\ f.cell_max_lat <= bbox[4]
            /\ bbox[1] <= f.cell_min_lon /\ f.cell_max_lon <= bbox[3]
       /\ last_call.value.metadata.rows * last_call.value.metadata.cols
            = Len(Features)

\* C19: every cell has gps_error_min <= gps_error_max, whatever the two
\* estimate_gps_error calls draw.
C19_GpsErrorMinBelowMax ==
  IsHeatmapCall => \A f \in FeatureSet : f.gps_error_min <= f.gps_error_max

\* cells whose minimum was drawn with the largest jitter and whose maximum
\* with the smallest
C19_Witness ==
  /\ IsHeatmapCall
  /\ Features # <<>>
  /\ last_call.draws.gps_min = 1199 /\ last_call.draws.gps_max = 800
  /\ \A f \in FeatureSet : f.gps_error_min < f.gps_error_max

(***************************************************************************)
(* services/simulation.py: StormSimulator.simulate_gps_failure.            *)
(*                                                                         *)
(* Numbers.  Positions and drift magnitudes are in units of 1e-7 degree,   *)
(* angles in milliradians, sines and cosines and random.random() in        *)
(* thousandths.  math.sin is evaluated by its Taylor series to about three *)
(* decimals, so a modelled position approximates the float the code        *)
(* computes; which draws the position depends on is exact.                 *)
(***************************************************************************)
\* magnitude * (thousandths / 1000), to the nearest unit
ScaleMilli(magnitude, thousandths) ==
  LET p == magnitude * thousandths
  IN IF p >= 0 THEN (p + 500) \div 1000 ELSE -((500 - p) \div 1000)

\* base_drift.get(severity, 0.0001), in units of 1e-7 degree
base_drift(severity) ==
  IF severity = "low" THEN 200
  ELSE IF severity = "medium" THEN 1000
  ELSE IF severity = "high" THEN 3000
  ELSE 1000

\* twice the risk_multiplier of a RiskLevel
risk_multiplier2(risk_level) ==
  IF risk_level = LOW THEN 1 ELSE IF risk_level = MEDIUM THEN 2 ELSE 4

\* _calculate_drift_parameters.  direction and bias are what its two
\* random.uniform calls return; randomness 0.3 is kept in tenths.
calculate_drift_parameters(risk_level, severity, direction, bias) ==
  [ magnitude        |-> (base_drift(severity) * risk_multiplier2(risk_level)) \div 2,
    direction_change |-> direction,
    randomness       |-> 3,
    systematic_bias  |-> bias ]

\* _apply_drift_step.  random is what random.random() returns, in
\* thousandths.  The code updates params["direction_change"] in place: the
\* updated value is returned next to the new position.
apply_drift_step(lat, lon, params, step, random) ==
  LET periodic_variation == SinMilli(step * 100) \div 10
      direction == params.direction_change
                     + ((random - 500) * params.randomness) \div 10
                     + params.systematic_bias
                     + periodic_variation
      drift_lat == ScaleMilli(params.magnitude, SinMilli(direction))
      drift_lon == ScaleMilli(params.magnitude, CosMilli(direction))
  IN [ lat |-> lat + drift_lat, lon |-> lon + drift_lon,
       direction_change |-> direction ]

\* the loop of simulate_gps_failure from `step` on: one _apply_drift_step
\* and one append per step
RECURSIVE DriftLoop(_,_,_,_,_)
DriftLoop(drift_path, params, step, steps, randoms) ==
  IF step >= steps THEN drift_path
  ELSE LET current == drift_path[Len(drift_path)]
           moved == apply_drift_step(current[1], current[2], params, step, randoms[step + 1])
       IN DriftLoop(Append(drift_path, <<moved.lat, moved.lon>>),
                    [params EXCEPT !.direction_change = moved.direction_change],
                    step + 1, steps, randoms)

\* range(duration_seconds // 5) runs this many times
DriftSteps(duration_seconds) == Max(0, duration_seconds \div 5)

\* _calculate_total_drift: 0 for a path of fewer than two points; on a
\* longer path the first segment evaluates math.PI, an attribute the math
\* module does not have, and the call raises AttributeError.
calculate_total_drift(drift_path) ==
  IF Len(drift_path) < 2 THEN [raised |-> "none", value |-> 0]
  ELSE [raised |-> "AttributeError", value |-> 0]

\* simulate_gps_failure.  draws holds what the global random source returns
\* during the call.  The value records the exception raised ("none" when the
\* call returns), the drift path the loop built, and the returned dict;
\* total_drift_m and drift_rate_mps are 0 whenever the call returns, since
\* only a one-point path gets past _calculate_total_drift.
simulate_gps_failure(risk_level, severity, start_position, duration_seconds, draws) ==
  LET steps  == DriftSteps(duration_seconds)
      params == calculate_drift_parameters(risk_level, severity, draws.direction, draws.bias)
      drift_path == DriftLoop(<<start_position>>, params, 0, steps, draws.randoms)
      total  == calculate_total_drift(drift_path)
      raised == IF total.raised # "none" THEN total.raised
                ELSE IF duration_seconds = 0 THEN "ZeroDivisionError"
                ELSE "none"
  IN [ raised     |-> raised,
       drift_path |-> drift_path,
       returned   |->
         IF raised # "none" THEN None
         ELSE Some([ drift_path     |-> drift_path,
                     total_drift_m  |-> total.value,
                     drift_rate_mps |-> 0,
                     severity       |-> severity,
                     risk_level     |-> risk_level,
                     duration_s     |-> duration_seconds,
                     start_position |-> start_position,
                     end_position   |-> drift_path[Len(drift_path)] ]) ]

\* GPSFailureSimulation requests: the model has no seed field
DriftSeverities == {"low", "medium", "high", "extreme"}
DriftStarts == { <<377700000, -1224200000>>, <<0, 0>> }
DriftDurations == {0, 4, 5, 10}

\* what random.uniform(0, math.pi), random.uniform(-0.1, 0.1) and
\* random.random() can return
InitialDirections == {0, 1571}
SystematicBiases == {-100, 100}
StepRandoms == {0, 500, 990}
DriftDraws(steps) ==
  [ direction : InitialDirections, bias : SystematicBiases,
    randoms : [1..steps -> StepRandoms] ]

DriftCall(risk_level, severity, start_position, duration_seconds, draws) ==
  [ fn |-> "simulate_gps_failure", risk_level |-> risk_level,
    severity |-> severity, start_position |-> start_position,
    duration_seconds |-> duration_seconds, draws |-> draws,
    value |-> simulate_gps_failure(risk_level, severity, start_position, duration_seconds, draws) ]

\* a first run on any request
CallSimulateGpsFailure ==
  /\ last_call = NoCall
  /\ \E risk_level \in {LOW, MEDIUM, HIGH}, severity \in DriftSeverities,
        start_position \in DriftStarts, duration_seconds \in DriftDurations :
       \E draws \in DriftDraws(DriftSteps(duration_seconds)) :
         last_call' = DriftCall(risk_level, severity, start_position, duration_seconds, draws)
  /\ prev_call' = last_call
  /\ UNCHANGED <<astarVars, appVars>>

\* a second run on the same request, in the same process: the random source
\* carries on from wherever the first run left it
CallSimulateGpsFailureAgain ==
  /\ last_call # NoCall /\ prev_call = NoCall
  /\ last_call.fn = "simulate_gps_failure"
  /\ \E draws \in DriftDraws(DriftSteps(last_call.duration_seconds)) :
       last_call' = DriftCall(last_call.risk_level, last_call.severity,
                              last_call.start_position,
                              last_call.duration_seconds, draws)
  /\ prev_call' = last_call
  /\ UNCHANGED <<astarVars, appVars>>

NextDrift == CallSimulateGpsFailure \/ CallSimulateGpsFailureAgain
SpecDrift == InitRisk /\ [][NextDrift]_vars

\* two runs of simulate_gps_failure on identical inputs
IsDriftPair ==
  /\ last_call.fn = "simulate_gps_failure"
  /\ prev_call.fn = "simulate_gps_failure"

\* C20: two runs of simulate_gps_failure on identical inputs have the same
\* outcome: they build the same drift path and return the same path and
\* statistics.
C20_DriftIsDeterministic ==
  IsDriftPair =>
    /\ prev_call.value.drift_path = last_call.value.drift_path
    /\ prev_call.value.returned = last_call.value.returned
    /\ prev_call.value.raised = last_call.value.raised

\* C21: for every duration_seconds >= 1 simulate_gps_failure returns, and the
\* trace has floor(duration_seconds / 5) + 1 points, starts at start_position,
\* ends at its last point, and has total_drift_m >= 0 and drift_rate_mps >= 0.
C21_DriftTraceIsReturned ==
  (last_call.fn = "simulate_gps_failure" /\ last_call.duration_seconds >= 1) =>
    /\ last_call.value.raised = "none"
    /\ last_call.value.returned # None
    /\ LET trace == last_call.value.returned[1]
       IN /\ Len(trace.drift_path) = last_call.duration_seconds \div 5 + 1
          /\ trace.drift_path[1] = last_call.start_position
          /\ trace.end_position = trace.drift_path[Len(trace.drift_path)]
          /\ trace.total_drift_m >= 0
          /\ trace.drift_rate_mps >= 0

(***************************************************************************)
(* RiskAssessmentService._get_region_factor, called on its own.            *)
(***************************************************************************)
\* latitudes and longitudes on, next to and between the region boxes' edges
RegionLatitudes ==
  {-90, -75, -60, -59, 0, 9, 10, 19, 20, 34, 35, 50, 59, 60, 61, 65, 70, 71, 90}
RegionLongitudes ==
  {-180, -131, -130, -100, -60, -59, -11, -10, 20, 40, 41, 59, 60, 100, 150, 151, 180}

CallRegionFactor ==
  /\ last_call = NoCall
  /\ \E lat \in RegionLatitudes, lon \in RegionLongitudes :
       last_call' = [fn |-> "_get_region_factor", latitude |-> lat,
                     longitude |-> lon,
                     value |-> _get_region_factor(lat, lon)]
  /\ prev_call' = last_call
  /\ UNCHANGED <<astarVars, appVars>>

NextRegion == CallRegionFactor
SpecRegion == InitRisk /\ [][NextRegion]_vars

\* C24: _get_region_factor returns the multiplier of the first region, in
\* the order north_america, europe, asia, south_pole, north_pole, whose closed
\* box contains the point, and 1.0 when none does.
C24_FirstMatchingRegionWins ==
  last_call.fn = "_get_region_factor" =>
    LET lat == last_call.latitude
        lon == last_call.longitude
    IN last_call.value =
         IF 20 <= lat /\ lat <= 70 /\ -130 <= lon /\ lon <= -60 THEN 10
         ELSE IF 35 <= lat /\ lat <= 70 /\ -10 <= lon /\ lon <= 40 THEN 12
         ELSE IF 10 <= lat /\ lat <= 60 /\ 60 <= lon /\ lon <= 150 THEN 11
         ELSE IF -90 <= lat /\ lat <= -60 /\ -180 <= lon /\ lon <= 180 THEN 20
         ELSE IF 60 <= lat /\ lat <= 90 /\ -180 <= lon /\ lon <= 180 THEN 18
         ELSE 10

\* latitude 65, longitude -100 lies in north_america and in north_pole and
\* gets north_america's 1.0
C24_Witness ==
  /\ last_call.fn = "_get_region_factor"
  /\ last_call.latitude = 65 /\ last_call.longitude = -100
  /\ last_call.value = 10

(***************************************************************************)
(* find_routes where both searches return a path, as a_star_search does    *)
(* for every pair of cells inside the grid; lat_lon_to_grid clamps both    *)
(* cells into it.                                                          *)
(***************************************************************************)
\* the request start = (37.77, -122.42), end = (37.78, -122.43), in steps of
\* 0.001 degree
ExampleStart == <<37770, -122420>>
ExampleEnd == <<37780, -122430>>

\* the requests of SpecRoutes and the example
FoundRequests ==
  { <<from, <<from[1] + dlat, from[2] + dlon>> >> :
      from \in RouteStarts, dlat \in RouteDeltas, dlon \in RouteDeltas }
    \cup { <<ExampleStart, ExampleEnd>> }

\* lat_lon_to_grid(point).  The example's float quotients, 1/3 and 2/3 of the
\* padded box, times grid_size - 1 give int() the exact floor.
FoundCellsOf(point, from, to) ==
  IF <<from, to>> = <<ExampleStart, ExampleEnd>>
  THEN { lat_lon_to_grid(point[1], point[2], RouteBBox(from, to).min_lat,
                         RouteBBox(from, to).max_lat, RouteBBox(from, to).min_lon,
                         RouteBBox(from, to).max_lon, 0, 0) }
  ELSE GridCellsOf(point, RouteBBox(from, to))

Reverse(seq) == [i \in 1..Len(seq) |-> seq[Len(seq) + 1 - i]]

\* paths a_star_search can return from a to b: along x then y, or along y
\* then x
PathsBetween(a, b) == { WalkBetween(a, b), Reverse(WalkBetween(b, a)) }

FoundCall(from, to, kp, variation, normal_path, safe_path) ==
  [fn |-> "find_routes", start |-> from, end |-> to, kp_index |-> kp,
   variation |-> variation, normal_path |-> normal_path,
   safe_path |-> safe_path,
   value |-> find_routes(from, to, kp, variation, normal_path, safe_path)]

CallFindRoutesFound ==
  /\ last_call = NoCall
  /\ \E request \in FoundRequests, kp \in RouteKps, variation \in RouteVariations :
     \E start_grid \in FoundCellsOf(request[1], request[1], request[2]),
        end_grid \in FoundCellsOf(request[2], request[1], request[2]) :
     \E normal_path \in PathsBetween(start_grid, end_grid),
        safe_path \in PathsBetween(start_grid, end_grid) :
       last_call' = FoundCall(request[1], request[2], kp, variation,
                              Some(normal_path), Some(safe_path))
  /\ prev_call' = last_call
  /\ UNCHANGED <<astarVars, appVars>>

\* the example once more, with Kp 8.5 after Kp 2.0; every cell's local
\* variation is drawn again
CallFindRoutesStorm ==
  /\ prev_call = NoCall
  /\ last_call.fn = "find_routes"
  /\ <<last_call.start, last_call.end>> = <<ExampleStart, ExampleEnd>>
  /\ last_call.kp_index = 20
  /\ \E variation \in RouteVariations :
     \E start_grid \in FoundCellsOf(ExampleStart, ExampleStart, ExampleEnd),
        end_grid \in FoundCellsOf(ExampleEnd, ExampleStart, ExampleEnd) :
     \E normal_path \in PathsBetween(start_grid, end_grid),
        safe_path \in PathsBetween(start_grid, end_grid) :
       last_call' = FoundCall(ExampleStart, ExampleEnd, 85, variation,
                              Some(normal_path), Some(safe_path))
  /\ prev_call' = last_call
  /\ UNCHANGED <<astarVars, appVars>>

NextRoutesFound == CallFindRoutesFound \/ CallFindRoutesStorm
SpecRoutesFound == InitRisk /\ [][NextRoutesFound]_vars

IsExampleCall(call, kp) ==
  /\ call.fn = "find_routes"
  /\ <<call.start, call.end>> = <<ExampleStart, ExampleEnd>>
  /\ call.kp_index = kp

\* C23: for start = (37.77, -122.42), end = (37.78, -122.43), the normal
\* variant at Kp 2.0 has distance_m > 0 and max_risk_zone Low, and the normal
\* variant at Kp 8.5 has a strictly larger total_risk_score, whatever the
\* local variations of the two calls.
C23_ExampleRouteRiskGrowsWithKp ==
  /\ IsExampleCall(last_call, 20) =>
       /\ last_call.value.normal # None
       /\ last_call.value.normal[1].distance_m > 0
       /\ last_call.value.normal[1].max_risk_zone = LOW
  /\ (IsExampleCall(prev_call, 20) /\ IsExampleCall(last_call, 85)) =>
       /\ last_call.value.normal # None
       /\ last_call.value.normal[1].total_risk_score
            > prev_call.value.normal[1].total_risk_score

\* the quiet call drew the largest local variation and the storm call the
\* smallest
C23_Witness ==
  /\ IsExampleCall(prev_call, 20) /\ IsExampleCall(last_call, 85)
  /\ \A c \in GridCells : prev_call.variation[c] = 119 /\ last_call.variation[c] = 80
  /\ last_call.value.normal[1].total_risk_score
       > prev_call.value.normal[1].total_risk_score

\* C26: the normal and the safe variant returned by find_routes are identical
\* in path and in every metric.
C26_NormalAndSafeAreIdentical ==
  last_call.fn = "find_routes" =>
    /\ last_call.value.normal # None
    /\ last_call.value.safe = last_call.value.normal

\* the two searches returned different paths of three or more cells
C26_Witness ==
  /\ last_call.fn = "find_routes"
  /\ last_call.normal_path # last_call.safe_path
  /\ Len(last_call.normal_path[1]) >= 3
  /\ last_call.value.safe = last_call.value.normal
  /\ Len(last_call.value.normal[1].path) = 2

(***************************************************************************)
(* cache/memory_cache.py: MemoryCache.  The lock is never held across an   *)
(* await, so every method runs to its end once it has started.             *)
(***************************************************************************)
\* get: the value of an entry that has not expired, else None
CacheGet(c, key, t) ==
  IF key \in DOMAIN c /\ c[key].expires_at > t THEN Some(c[key].value) ELSE None

\* get deletes the entry it finds expired
CacheAfterGet(c, key, t) ==
  IF key \in DOMAIN c /\ ~(c[key].expires_at > t)
  THEN [k \in DOMAIN c \ {key} |-> c[k]]
  ELSE c

CacheSet(c, key, value, ttl, t) ==
  [k \in DOMAIN c \cup {key} |->
     IF k = key THEN [value |-> value, expires_at |-> t + ttl] ELSE c[k]]

\* delete with a key ending in "*": every key that starts with the prefix
\* goes.  The keys of this model start with one of four prefixes, none of
\* which begins another.
CacheDeletePrefix(c, prefix) ==
  [k \in { k \in DOMAIN c : k[1] # prefix } |-> c[k]]

(***************************************************************************)
(* RiskAssessmentService.process_space_weather_data and                    *)
(* StormSimulator.get_simulated_weather.  A SpaceWeatherData is a record   *)
(* of kp_index (tenths), solar_wind_speed (km/s, or None), risk_level,     *)
(* estimated_gps_error_m (tenths of a metre), alerts and source; its       *)
(* timestamp and solar_wind_density are read by no code and left out.      *)
(***************************************************************************)
AlertSevere == "SEVERE: Geomagnetic storm - GPS degradation expected"
AlertRecommend == "Recommend: Use storm-safe routing and prepare for IMU navigation"
AlertModerate == "MODERATE: Elevated space weather - Monitor GPS accuracy"
AlertSolarWind == "High solar wind detected - Increased GPS error possible"
AlertSimulatedSevere == "Simulated severe storm - GPS errors artificially increased"

\* the alerts process_space_weather_data appends
RiskAlerts(risk_level, solar_wind_speed, scenario) ==
  IF risk_level = HIGH THEN <<AlertSevere, AlertRecommend>>
  ELSE IF risk_level = MEDIUM
       THEN <<AlertModerate>> \o
            (IF solar_wind_speed # None /\ solar_wind_speed[1] # 0
                /\ solar_wind_speed[1] > 600
             THEN <<AlertSolarWind>> ELSE <<>>)
  ELSE IF scenario = "severe" THEN <<AlertSimulatedSevere>>
  ELSE <<>>

\* random_factor is the draw of estimate_gps_error
process_space_weather_data(data, latitude, scenario, random_factor) ==
  LET risk_level == calculate_risk_level(data.kp_index, data.solar_wind_speed, latitude)
  IN [data EXCEPT
        !.risk_level = risk_level,
        !.estimated_gps_error_m =
           estimate_gps_error(risk_level, latitude, scenario, random_factor),
        !.alerts = @ \o RiskAlerts(risk_level, data.solar_wind_speed, scenario)]

\* self.scenarios: kp_base and kp_variation in tenths, solar_wind in km/s
scenarios(scenario) ==
  CASE scenario = "normal" ->
         [kp_base |-> 20, kp_variation |-> 5, solar_wind |-> 400,
          description |-> "Normal space weather conditions"]
    [] scenario = "moderate" ->
         [kp_base |-> 50, kp_variation |-> 10, solar_wind |-> 550,
          description |-> "Moderate geomagnetic storm"]
    [] scenario = "severe" ->
         [kp_base |-> 80, kp_variation |-> 7, solar_wind |-> 700,
          description |-> "Severe geomagnetic storm"]

SimulationScenario == {"normal", "moderate", "severe"}

\* scenario.value.upper()
Upper(scenario) ==
  CASE scenario = "normal" -> "NORMAL"
    [] scenario = "moderate" -> "MODERATE"
    [] scenario = "severe" -> "SEVERE"

\* draws.kp is round(random.uniform(-kp_variation / 2, kp_variation / 2), 1)
\* in tenths, draws.solar_wind is random.uniform(-50, 50) in km/s, and
\* draws.gps is the draw of estimate_gps_error.
get_simulated_weather(scenario, latitude, longitude, draws) ==
  LET config == scenarios(scenario)
      weather_data ==
        [kp_index |-> config.kp_base + draws.kp,
         solar_wind_speed |-> Some(config.solar_wind + draws.solar_wind),
         risk_level |-> LOW,
         estimated_gps_error_m |-> <<50, 150>>,
         alerts |-> << "Simulated " \o scenario \o " storm: " \o config.description >>,
         source |-> Upper(scenario)]
  IN process_space_weather_data(weather_data, Some(latitude), scenario, draws.gps)

(***************************************************************************)
(* services/noaa_service.py: NOAAWeatherService.  What the provider        *)
(* answers is an argument: [raised |-> TRUE] when the HTTP request fails,  *)
(* else [raised |-> FALSE, data |-> rows].  A row is <<time_tag, value>>;  *)
(* a value is [kind |-> "number", v |-> n], which float() accepts, or has  *)
(* kind "null" (JSON null) or kind "text" (a string float() rejects).      *)
(***************************************************************************)
KpKey == <<"noaa_kp_data", "">>
SolarWindKey == <<"noaa_solar_wind_data", "">>

\* _generate_simulated_kp_data: 24 rows, row i holding 2.3 + (i % 3) * 0.7
\* for i from 0
generate_simulated_kp_data ==
  [i \in 1..24 |-> <<"time", [kind |-> "number", v |-> 23 + ((i - 1) % 3) * 7]>>]

\* fetch_kp_index up to its HTTP request: Some(the cached rows) when the
\* cache holds rows that are not empty, else None
kp_index_cached(c, t) ==
  LET cached == CacheGet(c, KpKey, t)
  IN IF cached # None /\ cached[1] # <<>> THEN cached ELSE None

\* fetch_kp_index from the provider's answer on: the rows it returns
fetch_kp_index(answer) ==
  IF answer.raised THEN generate_simulated_kp_data ELSE answer.data

\* fetch_kp_index caching the rows the provider sent with a generated
\* timestamp for 300 s and returning them
SetAnswered(c, key, answer, t) ==
  IF answer.raised THEN c ELSE CacheSet(c, key, answer.data, 300, t)

\* fetch_solar_wind, the same way, with [] when the request fails
solar_wind_cached(c, t) ==
  LET cached == CacheGet(c, SolarWindKey, t)
  IN IF cached # None /\ cached[1] # <<>> THEN cached ELSE None

fetch_solar_wind(answer) ==
  IF answer.raised THEN <<>> ELSE answer.data

\* the value in the last row
LatestValue(rows) == rows[Len(rows)][2]

\* NOAAWeatherService.get_current_space_weather from the two row lists on.
\* A falsy latest Kp (null, 0) gives 2.0; float() of a text value raises
\* inside the try and gives the default data with source SIMULATION; for the
\* solar wind the inner bare except gives 400.0 instead.
noaa_get_current_space_weather(kp_data, solar_wind_data) ==
  LET kp_text == Len(kp_data) > 1 /\ LatestValue(kp_data).kind = "text"
      latest_kp ==
        IF Len(kp_data) > 1 /\ LatestValue(kp_data).kind = "number"
           /\ LatestValue(kp_data).v # 0
        THEN LatestValue(kp_data).v
        ELSE 20
      solar_wind_speed ==
        IF Len(solar_wind_data) > 1
        THEN (IF LatestValue(solar_wind_data).kind = "number"
              THEN Some(LatestValue(solar_wind_data).v)
              ELSE Some(400))
        ELSE None
  IN IF kp_text
     THEN [kp_index |-> 20, solar_wind_speed |-> Some(400),
           risk_level |-> LOW, estimated_gps_error_m |-> <<50, 150>>,
           alerts |-> <<"Using simulated data - NOAA API failed">>,
           source |-> "SIMULATION"]
     ELSE [kp_index |-> latest_kp, solar_wind_speed |-> solar_wind_speed,
           risk_level |-> LOW, estimated_gps_error_m |-> <<50, 150>>,
           alerts |-> <<>>, source |-> "NOAA"]

(***************************************************************************)
(* main.py: the simulation state, the route cache and the request          *)
(* handlers.  A handler runs to its last state change without yielding to  *)
(* another request (the cache lock is never contended and broadcast_update *)
(* is awaited last), so each handler is one action.  Each handler leaves   *)
(* its answer in `response`.                                               *)
(***************************************************************************)
\* the bound on the clock, and the seconds that pass in one step of it
MaxTime == 600
TickSeconds == 150

\* get_safe_kp_index, in tenths
get_safe_kp_index(sim) ==
  IF sim.kp_index = None THEN 20 ELSE sim.kp_index[1]

\* scenario = "simulation" if current_simulation["active"] else "normal"
scenario_of(sim) == IF sim.active THEN "simulation" ELSE "normal"

\* current_simulation after simulate_storm's update and its kp_index
\* assignment
simulate_storm_update(sim, scenario, latitude, longitude, kp_index) ==
  [sim EXCEPT !.active = TRUE, !.scenario = Some(scenario),
              !.latitude = Some(latitude), !.longitude = Some(longitude),
              !.kp_index = Some(kp_index)]

\* stop_simulation switching the simulation off and resetting nothing else
stop_simulation_update_keeps_fields(sim) == [sim EXCEPT !.active = FALSE]

\* current_simulation after stop_simulation's update
stop_simulation_update(sim) ==
  [sim EXCEPT !.active = FALSE, !.scenario = None, !.kp_index = None,
              !.latitude = None, !.longitude = None]

\* router.find_routes(request, kp_index, scenario) of RoadNetworkRouter: the
\* routes of a request, which depend on the Kp index and the scenario they
\* were computed under
RoadNetworkRouter_find_routes(request, kp_index, scenario) ==
  [request |-> request, kp_index |-> kp_index, scenario |-> scenario]

\* f"route_cache_{md5(str(request.dict()))}"
RouteKey(request) == <<"route_cache_", request>>

\* Inputs
StormScenarios == SimulationScenario \cup {"extreme"}
StormLatitudes == {37, 65}
StormLongitudes == {-122}
StormDraws == [kp : {-2, 2}, solar_wind : {-50, 50}, gps : {1000}]
RouteRequests == {"A", "B"}

\* GET /api/space-weather/simulate.  An unknown scenario raises
\* HTTPException(400) inside the outer try; HTTPException is an Exception,
\* so the outer except answers 500 with the first exception as detail.
SimulateStorm ==
  /\ \E scenario \in StormScenarios, latitude \in StormLatitudes,
        longitude \in StormLongitudes, draws \in StormDraws :
       IF scenario \notin SimulationScenario
       THEN /\ response' = [handler |-> "simulate_storm", scenario |-> scenario,
                            status |-> 500, broadcast |-> None]
            /\ UNCHANGED <<current_simulation, cache>>
       ELSE LET weather_data == get_simulated_weather(scenario, latitude, longitude, draws)
            IN /\ current_simulation' =
                    simulate_storm_update(current_simulation, scenario, latitude,
                                          longitude, weather_data.kp_index)
               /\ cache' = CacheDeletePrefix(cache, "route_cache_")
               /\ response' = [handler |-> "simulate_storm", scenario |-> scenario,
                               status |-> 200, body |-> weather_data,
                               broadcast |-> Some("simulation_started")]
  /\ UNCHANGED <<OTP_STORE, otp_issued, now, weather_call, riskVars, astarVars>>

\* GET /api/space-weather/stop-simulation
StopSimulation ==
  /\ current_simulation' = stop_simulation_update(current_simulation)
  /\ response' = [handler |-> "stop_simulation", status |-> 200,
                  broadcast |-> None]
  /\ UNCHANGED <<cache, OTP_STORE, otp_issued, now, weather_call, riskVars, astarVars>>

\* POST /api/route
CalculateRoute ==
  /\ \E request \in RouteRequests :
       LET cached == CacheGet(cache, RouteKey(request), now)
           c1 == CacheAfterGet(cache, RouteKey(request), now)
           routes == RoadNetworkRouter_find_routes(request,
                       get_safe_kp_index(current_simulation),
                       scenario_of(current_simulation))
       IN IF cached # None
          THEN /\ cache' = c1
               /\ response' = [handler |-> "calculate_route", status |-> 200,
                               body |-> cached[1], from_cache |-> TRUE,
                               broadcast |-> None]
          ELSE /\ cache' = CacheSet(c1, RouteKey(request), routes, 300, now)
               /\ response' = [handler |-> "calculate_route", status |-> 200,
                               body |-> routes, from_cache |-> FALSE,
                               broadcast |-> None]
  /\ UNCHANGED <<current_simulation, OTP_STORE, otp_issued, now, weather_call, riskVars, astarVars>>

\* time passes between requests
Tick ==
  /\ now + TickSeconds <= MaxTime
  /\ now' = now + TickSeconds
  /\ UNCHANGED <<current_simulation, cache, OTP_STORE, otp_issued, response, weather_call,
                 riskVars, astarVars>>

\* What the provider answers to the two requests: the request fails, or rows
\* come back, the first one the header.
Header == <<"time_tag", [kind |-> "text", v |-> 0]>>
Row(kind, v) == <<"2025-01-01 00:00:00", [kind |-> kind, v |-> v]>>
KpAnswers ==
  { [raised |-> TRUE, data |-> <<>>],
    [raised |-> FALSE, data |-> <<Header, Row("number", 57)>>],
    [raised |-> FALSE, data |-> <<Header, Row("text", 0)>>] }
SolarWindAnswers ==
  { [raised |-> TRUE, data |-> <<>>],
    [raised |-> FALSE, data |-> <<Header, Row("number", 650)>>] }
RandomFactors == { d.gps : d \in StormDraws }

\* get_current_space_weather from `scenario = ...` on: the sample is
\* processed under the simulation status read now and returned.  kp_from
\* and initial_alerts record where the Kp rows came from and the alerts the
\* sample carried when it was built.
WeatherAnswer(weather_data, initial_alerts, latitude, kp_from, random_factor) ==
  [handler |-> "get_current_space_weather", status |-> 200,
   body |-> process_space_weather_data(weather_data, Some(latitude),
              scenario_of(current_simulation), random_factor),
   kp_from |-> kp_from, initial_alerts |-> initial_alerts,
   broadcast |-> Some("space_weather_update")]

\* noaa_service.get_current_space_weather once fetch_kp_index has returned:
\* fetch_solar_wind looks in the cache and, on a miss, sends its request
AfterKpIndex(c, latitude, kp_data, kp_from) ==
  LET cached == solar_wind_cached(c, now)
      c1 == CacheAfterGet(c, SolarWindKey, now)
  IN /\ cache' = c1
     /\ IF cached = None
        THEN /\ weather_call' = [pc |-> "fetch_solar_wind", latitude |-> latitude,
                                 kp_data |-> kp_data, kp_from |-> kp_from]
             /\ UNCHANGED response
        ELSE /\ weather_call' = NoWeatherCall
             /\ \E random_factor \in RandomFactors :
                  LET weather_data == noaa_get_current_space_weather(kp_data, cached[1])
                  IN response' = WeatherAnswer(weather_data, weather_data.alerts,
                                               latitude, kp_from, random_factor)

\* GET /api/space-weather/current, up to its first HTTP request if it sends
\* one.  With a simulation active the handler does not yield: the sample of
\* get_simulated_weather, processed there once, is processed again.
GetCurrentSpaceWeather ==
  /\ weather_call.pc = "idle"
  /\ \E latitude \in StormLatitudes, longitude \in StormLongitudes :
       IF current_simulation.active
       THEN /\ \E draws \in StormDraws, random_factor \in RandomFactors :
                 LET scenario == current_simulation.scenario[1]
                     weather_data == get_simulated_weather(scenario, latitude, longitude, draws)
                 IN response' = WeatherAnswer(weather_data, <<weather_data.alerts[1]>>,
                                              latitude, "simulator", random_factor)
            /\ UNCHANGED <<cache, weather_call>>
       ELSE LET cached == kp_index_cached(cache, now)
                c1 == CacheAfterGet(cache, KpKey, now)
            IN IF cached = None
               THEN /\ cache' = c1
                    /\ weather_call' = [pc |-> "fetch_kp_index", latitude |-> latitude]
                    /\ UNCHANGED response
               ELSE AfterKpIndex(c1, latitude, cached[1], "cache")
  /\ UNCHANGED <<current_simulation, OTP_STORE, otp_issued, now, riskVars, astarVars>>

\* the Kp request ends: fetch_kp_index returns the provider's rows, cached,
\* or the generated rows when the request failed
KpIndexFetched ==
  /\ weather_call.pc = "fetch_kp_index"
  /\ \E answer \in KpAnswers :
       AfterKpIndex(SetAnswered(cache, KpKey, answer, now), weather_call.latitude,
                    fetch_kp_index(answer),
                    IF answer.raised THEN "generated" ELSE "provider")
  /\ UNCHANGED <<current_simulation, OTP_STORE, otp_issued, now, riskVars, astarVars>>

\* the solar wind request ends and the handler returns
SolarWindFetched ==
  /\ weather_call.pc = "fetch_solar_wind"
  /\ \E answer \in SolarWindAnswers, random_factor \in RandomFactors :
       LET weather_data ==
             noaa_get_current_space_weather(weather_call.kp_data, fetch_solar_wind(answer))
       IN /\ cache' = SetAnswered(cache, SolarWindKey, answer, now)
          /\ response' = WeatherAnswer(weather_data, weather_data.alerts,
                                       weather_call.latitude, weather_call.kp_from,
                                       random_factor)
  /\ weather_call' = NoWeatherCall
  /\ UNCHANGED <<current_simulation, OTP_STORE, otp_issued, now, riskVars, astarVars>>

\* the simulation requests and the route requests
NextSimulation == SimulateStorm \/ StopSimulation \/ CalculateRoute \/ Tick
SpecSimulation == InitRisk /\ [][NextSimulation]_vars

\* the simulation requests and the weather requests
NextWeather ==
  \/ SimulateStorm \/ StopSimulation \/ Tick
  \/ GetCurrentSpaceWeather \/ KpIndexFetched \/ SolarWindFetched
SpecWeather == InitRisk /\ [][NextWeather]_vars

\* C25: simulate_storm with a scenario outside {normal, moderate, severe}
\* answers 400, leaves current_simulation and the cache as they were and
\* broadcasts nothing.
C25_UnknownScenarioRejectedWith400 ==
  [][(/\ response'.handler = "simulate_storm"
      /\ response'.scenario \notin SimulationScenario)
     => /\ response'.status = 400
        /\ response'.broadcast = None
        /\ current_simulation' = current_simulation
        /\ cache' = cache]_vars

\* C27: when no simulation is active, scenario, kp_index, latitude and
\* longitude are None and get_safe_kp_index returns 2.0; when one is active,
\* the scenario is a valid one and kp_index is the Kp of the sample the most
\* recent simulate_storm generated: that request sets it, and no other
\* request changes it while the simulation stays active.
C27_SimulationStateIsConsistent ==
  /\ [](/\ ~current_simulation.active =>
             /\ current_simulation.scenario = None
             /\ current_simulation.kp_index = None
             /\ current_simulation.latitude = None
             /\ current_simulation.longitude = None
             /\ get_safe_kp_index(current_simulation) = 20
        /\ current_simulation.active =>
             /\ current_simulation.scenario # None
             /\ current_simulation.scenario[1] \in SimulationScenario
             /\ current_simulation.kp_index # None
        /\ (response.handler = "simulate_storm" /\ response.status = 200) =>
             /\ current_simulation.active
             /\ current_simulation.kp_index = Some(response.body.kp_index))
  /\ [][(current_simulation'.active /\ response'.handler # "simulate_storm")
        => current_simulation' = current_simulation]_vars

\* a severe simulation with Kp 8.2 still in effect after a route request
C27_Witness ==
  /\ current_simulation.active
  /\ current_simulation.scenario = Some("severe")
  /\ current_simulation.kp_index = Some(82)
  /\ response.handler = "calculate_route"

\* C28: a route served from the cache was computed under the Kp index and
\* the simulation status in effect when it is served.
C28_CachedRouteIsCurrent ==
  (response.handler = "calculate_route" /\ response.from_cache) =>
    /\ response.body.kp_index = get_safe_kp_index(current_simulation)
    /\ response.body.scenario = scenario_of(current_simulation)

\* C22: when the Kp request to the provider failed, the sample
\* get_current_space_weather returns is marked as fallback or simulated in
\* its source or its alerts, and its source is not "NOAA".
C22_FailedFetchIsMarked ==
  (response.handler = "get_current_space_weather" /\ response.kp_from = "generated") =>
    /\ response.body.source # "NOAA"
    /\ \/ response.body.source \in {"SIMULATION", "FALLBACK"}
       \/ \E i \in 1..Len(response.body.alerts) :
            response.body.alerts[i] \in {"Using simulated data - NOAA API failed",
                                         "Data fetch failed"}

\* C30: the sample get_current_space_weather returns holds each alert at
\* most once, after the alerts it was built with, in their order.
C30_AlertsAppearOnce ==
  response.handler = "get_current_space_weather" =>
    /\ \A i, j \in 1..Len(response.body.alerts) :
         response.body.alerts[i] = response.body.alerts[j] => i = j
    /\ Len(response.initial_alerts) <= Len(response.body.alerts)
    /\ SubSeq(response.body.alerts, 1, Len(response.initial_alerts))
         = response.initial_alerts

(***************************************************************************)
(* main.py: request_otp and verify_otp_and_login.  Neither handler awaits, *)
(* so each is one action.  otp_issued is a history variable the code does  *)
(* not have: for each email the code request_otp issued last, the time of  *)
(* its issue and the number of logins it has granted.                      *)
(***************************************************************************)
\* OTP_STORE after request_otp
request_otp(store, email, otp_code, t) ==
  [k \in DOMAIN store \cup {email} |->
     IF k = email THEN [otp |-> otp_code, expiry |-> t + 300] ELSE store[k]]

\* verify_otp_and_login leaving the code in OTP_STORE after a login
verify_otp_and_login_keeps_code(store, email, otp_received, t) ==
  IF email \notin DOMAIN store
  THEN [store |-> store, status |-> 400, detail |-> "OTP session not found or expired."]
  ELSE IF t > store[email].expiry
  THEN [store |-> [k \in DOMAIN store \ {email} |-> store[k]],
        status |-> 401, detail |-> "OTP expired."]
  ELSE IF otp_received # store[email].otp
  THEN [store |-> store, status |-> 401, detail |-> "Invalid OTP."]
  ELSE [store |-> store, status |-> 200, detail |-> "Login successful."]

\* verify_otp_and_login: OTP_STORE afterwards, the status and the message
verify_otp_and_login(store, email, otp_received, t) ==
  IF email \notin DOMAIN store
  THEN [store |-> store, status |-> 400, detail |-> "OTP session not found or expired."]
  ELSE IF t > store[email].expiry
  THEN [store |-> [k \in DOMAIN store \ {email} |-> store[k]],
        status |-> 401, detail |-> "OTP expired."]
  ELSE IF otp_received # store[email].otp
  THEN [store |-> store, status |-> 401, detail |-> "Invalid OTP."]
  ELSE [store |-> [k \in DOMAIN store \ {email} |-> store[k]],
        status |-> 200, detail |-> "Login successful."]

\* Inputs
Emails == {"a@example.com", "b@example.com"}
OtpCodes == {"111111", "222222"}

\* POST /api/auth/request-otp
RequestOtp ==
  /\ \E email \in Emails, otp_code \in OtpCodes :
       /\ OTP_STORE' = request_otp(OTP_STORE, email, otp_code, now)
       /\ otp_issued' =
            [k \in DOMAIN otp_issued \cup {email} |->
               IF k = email THEN [otp |-> otp_code, at |-> now, uses |-> 0]
               ELSE otp_issued[k]]
       /\ response' = [handler |-> "request_otp", email |-> email, status |-> 202]
  /\ UNCHANGED <<current_simulation, cache, now, weather_call, riskVars, astarVars>>

\* POST /api/auth/verify-otp
VerifyOtp ==
  /\ \E email \in Emails, otp_received \in OtpCodes :
       LET answer == verify_otp_and_login(OTP_STORE, email, otp_received, now)
       IN /\ OTP_STORE' = answer.store
          /\ otp_issued' =
               IF answer.status = 200 /\ email \in DOMAIN otp_issued
               THEN [otp_issued EXCEPT ![email].uses = @ + 1]
               ELSE otp_issued
          /\ response' = [handler |-> "verify_otp_and_login", email |-> email,
                          otp |-> otp_received, status |-> answer.status,
                          detail |-> answer.detail]
  /\ UNCHANGED <<current_simulation, cache, now, weather_call, riskVars, astarVars>>

NextAuth == RequestOtp \/ VerifyOtp \/ Tick
SpecAuth == InitRisk /\ [][NextAuth]_vars

\* a step of verify_otp_and_login: the clock stands still and the answer is
\* the handler's
IsVerifyStep ==
  now' = now /\ response'.handler = "verify_otp_and_login"

\* the latest code issued for the email is one a login may still use
LatestCodeIsLive(email) ==
  /\ email \in DOMAIN otp_issued
  /\ otp_issued[email].uses = 0
  /\ now <= otp_issued[email].at + 300

\* a login is granted only for the code issued last for the email, within
\* 300 s of its issue and not used before; after a verification that found
\* the code expired or used it, the email has no entry in OTP_STORE
OtpSingleUse ==
  IsVerifyStep =>
    /\ response'.status = 200 =>
         /\ LatestCodeIsLive(response'.email)
         /\ otp_issued[response'.email].otp = response'.otp
         /\ otp_issued'[response'.email].uses = 1
    /\ (response'.status = 200 \/ response'.detail = "OTP expired.") =>
         response'.email \notin DOMAIN OTP_STORE'
    /\ (/\ response'.email \in DOMAIN otp_issued
        /\ ~LatestCodeIsLive(response'.email)) =>
         /\ response'.status # 200
         /\ response'.email \notin DOMAIN OTP_STORE'

\* C29 as stated: an OTP is single-use and time-limited, and every code
\* other than the one issued last for the email is rejected with 401 and
\* leaves OTP_STORE unchanged.
C29_WrongCodeAlwaysLeavesStore ==
  [][/\ OtpSingleUse
     /\ (/\ IsVerifyStep
         /\ response'.email \in DOMAIN otp_issued
         /\ response'.otp # otp_issued[response'.email].otp)
        => /\ response'.status = 401
           /\ OTP_STORE' = OTP_STORE]_vars

\* C29, amended: an OTP is single-use and time-limited, and a code other
\* than the one issued last, presented while that one is unused and not
\* expired, is rejected with 401 and leaves OTP_STORE unchanged.
C29_WrongCodeLeavesLiveStore ==
  [][/\ OtpSingleUse
     /\ (/\ IsVerifyStep
         /\ LatestCodeIsLive(response'.email)
         /\ response'.otp # otp_issued[response'.email].otp)
        => /\ response'.status = 401
           /\ OTP_STORE' = OTP_STORE]_vars

\* a wrong code was rejected, the code issued 300 s ago is still stored, and
\* the other email has logged in with its code
C29_Witness ==
  /\ response.handler = "verify_otp_and_login"
  /\ response.status = 401
  /\ response.detail = "Invalid OTP."
  /\ response.email \in DOMAIN OTP_STORE
  /\ now = otp_issued[response.email].at + 300
  /\ \E other \in DOMAIN otp_issued : otp_issued[other].uses = 1

====
